---- MODULE Spec2Model ----
(***************************************************************************)
(* The crawl-and-reconcile pipeline of the Chemist Warehouse price tracker *)
(* (src/server/crawler.ts, src/server/db.ts, src/server/routers.ts).        *)
(*                                                                         *)
(* The server is one Node.js process: code between two awaits runs         *)
(* atomically, and every await is a point where another request handler or *)
(* another runCrawl invocation may run.  One action below is one such      *)
(* segment, together with the store call whose result it awaits.           *)
(*                                                                         *)
(* Money is counted in cents, percentages in basis points (1/100 of a      *)
(* percentage point).  A nullable value is a sequence of length 0 or 1.    *)
(***************************************************************************)
EXTENDS Integers, Sequences, FiniteSets, TLC

\* ------------------------------------------------------------------ bounds
\* runCrawl invocations over the life of the process
MaxJobs == 2
\* category pages the site serves with at least one product card
MaxServed == 1
\* disturbances of the crawls: crawl.stop requests, crawl.resetStuck requests
\* and errors raised by the browser or the store inside job bodies
MaxDisturbances == 1

\* The same bounds for the crawls that follow one another (SerialSpec), and
\* the products a user deactivates through product.update, and
MaxSerialJobs == 2
MaxSerialServed == 2
MaxSerialDisturbances == 1
MaxDeactivated == 1
\* calls of settings.update that change a setting
MaxSettingsChanges == 1

\* The length of the price texts enumerated for parsePrice.
MaxTextLen == 3

\* The number of JSON-LD blocks of a product page.
MaxBlocks == 2

\* The calls of startScheduler and stopScheduler, and the scheduled crawls,
\* that are followed.
MaxSchedulerCalls == 3
MaxScheduledJobs == 2

\* Two invocations of runCrawl may overlap; a slot is reused once its
\* invocation has returned.
Runs == {"r1", "r2"}

Null == <<>>
Some(x) == <<x>>
IsNull(o) == o = <<>>
Val(o) == o[1]

\* --------------------------------------------------------- program constants
\* crawler.ts CATEGORY_URLS, cut down to two categories of one sub-category
\* each; the order of the keys is kept.
CATEGORY_URLS ==
  << [cat |-> "beauty_skincare", subs |-> <<"skincare">>],
     [cat |-> "adult_health", subs |-> <<"mens-health">>] >>

\* scrapeCategoryPage(catInfo.id, catInfo.slug, 2)
MaxPagesPerSub == 2

\* status enum of crawl_jobs as the tables are created
DeclaredJobStatus == {"pending", "running", "completed", "failed"}

\* parseFloat(settingsMap[...] || "5"), || "10", in basis points
DefaultPriceDrop == 500
DefaultPriceIncrease == 1000

\* ------------------------------------------------------------------- inputs
\* category of crawl.trigger (the scheduler always asks for "all")
CategoryInputs == {"adult_health"}

\* String.prototype.toLowerCase on the URLs of the links: "/BUY/1/A" is the
\* only one with capitals
ToLowerCase(u) == IF u = "/BUY/1/A" THEN "/buy/1/a" ELSE u

\* The product links of the category pages (a link has a URL; name, image
\* and brand are the texts page.evaluate finds in its card, "" when it finds
\* none; price and origPrice are what parsePrice yields for the two price
\* texts, in cents): the product of the inventory under a URL in capitals and
\* without a "was" price, and a product on sale that the inventory does not hold
Link(url, name, price, origPrice, imageUrl) ==
  [ url |-> url, name |-> name, price |-> price, origPrice |-> origPrice,
    imageUrl |-> imageUrl, brand |-> "" ]

SiteInputs ==
  { Link("/BUY/1/A", "A", Some(1999), Null, ""),
    Link("/buy/2/b", "B", Some(1999), Some(2999), "b.jpg") }

\* rows of crawler_settings that runCrawl reads, the thresholds in hundredths
\* of a percentage point; a missing key is Null
Settings(priceDrop, priceIncrease, notifyOnSale) ==
  [ price_drop_threshold |-> priceDrop, price_increase_threshold |-> priceIncrease,
    notify_on_sale |-> notifyOnSale ]

SettingsInputs == { Settings(Null, Null, Null) }

\* what settings.update is called with while crawls follow one another: a
\* price-drop threshold of 1 percent, and notifications of sales switched off
SettingsChanges ==
  { [key |-> "price_drop_threshold", value |-> 100],
    [key |-> "notify_on_sale", value |-> "false"] }

\* a row of products as an earlier crawl left it
StoredProduct(url, name, currentPrice, originalPrice, isOnSale, discountPercent, imageUrl) ==
  [ name |-> name, brand |-> Null, sku |-> Null, url |-> url, imageUrl |-> imageUrl,
    category |-> "adult_health", currentPrice |-> Some(currentPrice),
    originalPrice |-> originalPrice, isOnSale |-> isOnSale,
    discountPercent |-> discountPercent, isActive |-> TRUE, lastCrawledAt |-> Null ]

\* inventory left by earlier crawls: one product on sale
InventoryInputs ==
  { << StoredProduct("/buy/1/a", "A", 1999, Some(2999), TRUE, Some(3334), Some("a.jpg")) >> }

\* What the crawls that follow one another are run on: an inventory of one
\* product that is not on sale, the settings, and the links the site shows.
\*  - the product at 29.99; the site shows it on sale at 19.99 (was 29.99)
\*    with a new image, or at 19.99 without a "was" price and without image,
\*    a product the inventory does not hold, a link without a name and a
\*    link without a price;
\*  - the same with notify_on_sale switched off;
\*  - the product at 3.00, thresholds of 5 and 10 percent, and the site
\*    shows it 5 percent cheaper or 10 percent dearer;
\*  - the product at 100.00, the default thresholds, and the site shows it
\*    5 or 4.99 percent cheaper, or 10 or 9.99 percent dearer;
\*  - the product on sale at 19.99 (was 29.99, 33.34 percent off); the site
\*    shows it, and a product the inventory does not hold, at 199.99 (was
\*    200.00).
SerialScenarios ==
  { [ inventory |-> << StoredProduct("/buy/1/a", "A", 2999, Null, FALSE, Null, Some("a.jpg")) >>,
      settings |-> Settings(Null, Null, Null),
      site |-> { Link("/BUY/1/A", "A", Some(1999), Some(2999), "a2.jpg"),
                 Link("/buy/1/a", "A", Some(1999), Null, ""),
                 Link("/buy/2/b", "B", Some(1999), Some(2999), "b.jpg"),
                 Link("/buy/3/c", "", Some(1999), Null, ""),
                 Link("/buy/4/d", "D", Null, Null, "") } ],
    [ inventory |-> << StoredProduct("/buy/1/a", "A", 2999, Null, FALSE, Null, Some("a.jpg")) >>,
      settings |-> Settings(Null, Null, Some("false")),
      site |-> { Link("/BUY/1/A", "A", Some(1999), Some(2999), "a2.jpg"),
                 Link("/buy/1/a", "A", Some(1999), Null, "") } ],
    [ inventory |-> << StoredProduct("/buy/1/a", "A", 300, Null, FALSE, Null, Null) >>,
      settings |-> Settings(Some(500), Some(1000), Some("true")),
      site |-> { Link("/buy/1/a", "A", Some(285), Null, ""),
                 Link("/buy/1/a", "A", Some(330), Null, "") } ],
    [ inventory |-> << StoredProduct("/buy/1/a", "A", 10000, Null, FALSE, Null, Null) >>,
      settings |-> Settings(Null, Null, Null),
      site |-> { Link("/buy/1/a", "A", Some(9500), Null, ""),
                 Link("/buy/1/a", "A", Some(9501), Null, ""),
                 Link("/buy/1/a", "A", Some(11000), Null, ""),
                 Link("/buy/1/a", "A", Some(10999), Null, "") } ],
    [ inventory |-> << StoredProduct("/buy/1/a", "A", 1999, Some(2999), TRUE, Some(3334), Null) >>,
      settings |-> Settings(Null, Null, Null),
      site |-> { Link("/buy/1/a", "A", Some(19999), Some(20000), ""),
                 Link("/buy/2/b", "B", Some(19999), Some(20000), "") } ] }

VARIABLES
  resultShape,      \* what an insert resolves to: "tuple" (the driver's
                    \* [ResultSetHeader, fields]) or "object" ({insertId})
  site,             \* the product links the site shows on its category pages
  limits,           \* how far the crawls are followed: invocations, pages
                    \* served with links, disturbances, deactivated products,
                    \* settings changes, whether invocations may overlap,
                    \* and whether runCrawl is also called with productIds
                    \* and with discoverNew: false
  crawlStopped,     \* _crawlStopped
  currentJobId,     \* _currentJobId
  browserInstance,  \* browserInstance: Null or the index of a browser
  browsers,         \* launched browsers: "open" or "closed"
  jobs,             \* table crawl_jobs, row id = index
  products,         \* table products, row id = index
  priceHistory,     \* table price_history
  notifications,    \* table notifications
  settings,         \* table crawler_settings: key -> value
  run,              \* the runCrawl invocations
  lastStop,         \* what the last stopCrawl() returned
  lastReset,        \* what the last resetStuckJobs() did
  ownerNotes,       \* notifyOwner calls, by run
  clock,            \* new Date()
  priceCall,        \* a call of parsePrice: its argument and what it returned
  scrapeCall,       \* a call of scrapeChemistWarehouseProduct: the page
                    \* behind the URL and what the call returned
  scheduler,        \* scheduler.ts: schedulerInterval, nextRunTime, and the
                    \* timers setTimeout has created
  detectCall,       \* a call of detectAndNotifyPriceChange: its arguments
  started, served, faults, stops, resets

vars == << resultShape, site, limits, crawlStopped, currentJobId, browserInstance,
           browsers, jobs, products, priceHistory, notifications, settings, run,
           lastStop, lastReset, ownerNotes, clock, priceCall, scrapeCall, scheduler,
           detectCall,
           started, served, faults, stops, resets >>

envVars == << resultShape, site, limits, settings, priceCall, scrapeCall, scheduler,
             detectCall >>
budgetVars == << started, served, faults, stops, resets >>
storeVars == << jobs, products, priceHistory, notifications >>
procVars == << crawlStopped, currentJobId, browserInstance, browsers >>

Disturbances == stops + resets + faults


\* ------------------------------------------------------ IEEE-754 arithmetic
\* Prices and percentages are JavaScript numbers (binary64): sign * m * 2^e
\* with m of 53 bits.  A natural number beyond 31 bits is a sequence of
\* digits in base 2^15, least significant first, without leading zeros.
Base == 32768
DigitBits == 15

\* F(a) and F(a, b) with a and b evaluated once, whatever the number of their
\* uses in F
Bind(a, F(_)) == CHOOSE v \in { F(x) : x \in {a} } : TRUE
Bind2(a, b, F(_, _)) == CHOOSE v \in { F(x, y) : x \in {a}, y \in {b} } : TRUE

RECURSIVE Big(_)
Big(n) == IF n = 0 THEN <<>> ELSE <<n % Base>> \o Big(n \div Base)

RECURSIVE BigToInt(_)
BigToInt(a) == IF a = <<>> THEN 0 ELSE a[1] + Base * BigToInt(Tail(a))

RECURSIVE Trim(_)
Trim(a) == IF a = <<>> \/ a[Len(a)] # 0 THEN a ELSE Trim(SubSeq(a, 1, Len(a) - 1))

\* the number of bits of a
BitLen(a) ==
  IF a = <<>> THEN 0
  ELSE DigitBits * (Len(a) - 1)
       + (CHOOSE k \in 1..DigitBits : 2^(k - 1) <= a[Len(a)] /\ a[Len(a)] < 2^k)

\* bit i of a, the lowest being bit 1, and 0 above the digits of a
BitAt(a, i) ==
  IF i > DigitBits * Len(a) THEN 0
  ELSE (a[((i - 1) \div DigitBits) + 1] \div 2^((i - 1) % DigitBits)) % 2

RECURSIVE LessFrom(_, _, _)
LessFrom(a, b, i) ==
  IF i = 0 THEN FALSE
  ELSE IF a[i] # b[i] THEN a[i] < b[i]
  ELSE LessFrom(a, b, i - 1)

BigLess(a, b) ==
  Bind2(a, b, LAMBDA x, y : IF Len(x) # Len(y) THEN Len(x) < Len(y)
                            ELSE LessFrom(x, y, Len(x)))

RECURSIVE AddFrom(_, _, _, _)
AddFrom(a, b, i, carry) ==
  IF i > Len(a) /\ i > Len(b) THEN (IF carry = 0 THEN <<>> ELSE <<carry>>)
  ELSE LET s == (IF i <= Len(a) THEN a[i] ELSE 0) + (IF i <= Len(b) THEN b[i] ELSE 0) + carry
       IN <<s % Base>> \o AddFrom(a, b, i + 1, s \div Base)

BigAdd(a, b) == Bind2(a, b, LAMBDA x, y : AddFrom(x, y, 1, 0))

\* a - b for a >= b
RECURSIVE SubFrom(_, _, _, _)
SubFrom(a, b, i, borrow) ==
  IF i > Len(a) THEN <<>>
  ELSE LET d == a[i] - (IF i <= Len(b) THEN b[i] ELSE 0) - borrow
       IN <<d % Base>> \o SubFrom(a, b, i + 1, IF d < 0 THEN 1 ELSE 0)

BigSub(a, b) == Bind2(a, b, LAMBDA x, y : Trim(SubFrom(x, y, 1, 0)))

\* a * c for 0 <= c < Base
RECURSIVE MulDigitFrom(_, _, _, _)
MulDigitFrom(a, c, i, carry) ==
  IF i > Len(a) THEN (IF carry = 0 THEN <<>> ELSE <<carry>>)
  ELSE LET s == a[i] * c + carry
       IN <<s % Base>> \o MulDigitFrom(a, c, i + 1, s \div Base)

MulDigit(a, c) ==
  Bind2(a, c, LAMBDA x, y : IF y = 0 THEN <<>> ELSE MulDigitFrom(x, y, 1, 0))

\* a * 2^k
ShiftLeft(a, k) ==
  Bind2(a, k, LAMBDA x, y :
    IF x = <<>> THEN <<>>
    ELSE [i \in 1..(y \div DigitBits) |-> 0] \o MulDigit(x, 2^(y % DigitBits)))

\* a times the digits b[i..]
RECURSIVE MulFrom(_, _, _)
MulFrom(a, b, i) ==
  IF i > Len(b) THEN <<>>
  ELSE Bind2(MulDigit(a, b[i]), MulFrom(a, b, i + 1),
             LAMBDA low, rest : BigAdd(low, ShiftLeft(rest, DigitBits)))

BigMul(a, b) == Bind2(a, b, LAMBDA x, y : MulFrom(x, y, 1))

\* Long division of p by q > 0.  DivBit is one step: the bit joins the
\* remainder r of the bits above it.  DivFrom covers the 2^level bits
\* p[(j+1) * 2^level .. j * 2^level + 1], the upper half and then the lower
\* half.  The quotient is a sequence of bits, least significant first.
DivBit(q, bit, r) ==
  Bind(BigAdd(BigAdd(r, r), Big(bit)),
       LAMBDA r2 : IF BigLess(r2, q) THEN [quot |-> <<0>>, rem |-> r2]
                   ELSE [quot |-> <<1>>, rem |-> BigSub(r2, q)])

RECURSIVE DivFrom(_, _, _, _, _)
DivFrom(p, q, level, j, r) ==
  IF level = 0 THEN DivBit(q, BitAt(p, j + 1), r)
  ELSE Bind(DivFrom(p, q, level - 1, 2 * j + 1, r),
            LAMBDA high :
              Bind(DivFrom(p, q, level - 1, 2 * j, high.rem),
                   LAMBDA low : [quot |-> low.quot \o high.quot, rem |-> low.rem]))

\* quotient (bits) and remainder (digits) of p by q > 0, for p < 2^128
BigDivMod(p, q) ==
  Bind2(p, q, LAMBDA x, y :
    DivFrom(x, y, CHOOSE level \in 0..7 : BitLen(x) <= 2^level
                                          /\ (level = 0 \/ BitLen(x) > 2^(level - 1)),
            0, <<>>))

RECURSIVE BitsToInt(_, _, _)
BitsToInt(bits, lo, hi) ==
  IF lo > hi THEN 0
  ELSE (IF lo <= Len(bits) THEN bits[lo] ELSE 0) + 2 * BitsToInt(bits, lo + 1, hi)

BitsToBig(bits, lo, hi) ==
  Trim([ j \in 1..(((hi - lo) \div DigitBits) + 1) |->
           BitsToInt(bits, lo + DigitBits * (j - 1),
                     IF lo + DigitBits * j - 1 < hi THEN lo + DigitBits * j - 1 ELSE hi) ])

TopBit(bits) ==
  IF \A i \in 1..Len(bits) : bits[i] = 0 THEN 0
  ELSE CHOOSE i \in 1..Len(bits) : bits[i] = 1 /\ \A j \in (i + 1)..Len(bits) : bits[j] = 0

FloatZero == [sign |-> 0, m |-> <<>>, e |-> 0]

\* The 53 bits quot[k+1..top] of a quotient whose top bit is bit 54 or more,
\* rounded to nearest, ties to even, by the bits below and the remainder:
\* the mantissa and what it adds to the exponent.
RoundBits(d, top) ==
  Bind2(BitsToBig(d.quot, top - 52, top),
        d.quot[top - 53] = 1
          /\ (d.rem # <<>> \/ d.quot[top - 52] = 1
                \/ \E i \in 1..(top - 54) : d.quot[i] = 1),
        LAMBDA m0, up :
          IF ~up THEN [m |-> m0, e |-> top - 53]
          ELSE Bind(BigAdd(m0, <<1>>),
                    LAMBDA m1 : IF BitLen(m1) = 54
                                THEN [m |-> ShiftLeft(<<1>>, 52), e |-> top - 52]
                                ELSE [m |-> m1, e |-> top - 53]))

\* the binary64 nearest to sign * (p / q) * 2^e, ties to even (p, q > 0)
RoundToDouble(sign, p, q, e) ==
  Bind2(p, q, LAMBDA x, y :
    Bind(55 - BitLen(x) + BitLen(y), LAMBDA s :
      Bind(BigDivMod(IF s >= 0 THEN ShiftLeft(x, s) ELSE x,
                     IF s >= 0 THEN y ELSE ShiftLeft(y, 0 - s)),
           LAMBDA d :
             Bind(RoundBits(d, TopBit(d.quot)),
                  LAMBDA r : [sign |-> sign, m |-> r.m, e |-> e - s + r.e]))))

\* parseFloat of a decimal text with two decimals, given in hundredths
parseFloat(hundredths) ==
  IF hundredths = 0 THEN FloatZero
  ELSE RoundToDouble(1, Big(hundredths), Big(100), 0)

\* the number n, an integer
FloatOfInt(n) == IF n = 0 THEN FloatZero ELSE RoundToDouble(1, Big(n), <<1>>, 0)

FloatNeg(x) == Bind(x, LAMBDA v : [v EXCEPT !.sign = 0 - @])
MathAbs(x) == Bind(x, LAMBDA v : [v EXCEPT !.sign = IF @ = 0 THEN 0 ELSE 1])

\* x < y for x, y >= 0
MagLess(x, y) ==
  IF y.sign = 0 THEN FALSE
  ELSE IF x.sign = 0 THEN TRUE
  ELSE IF x.e # y.e THEN x.e < y.e
  ELSE BigLess(x.m, y.m)

FloatLess(x, y) ==
  Bind2(x, y, LAMBDA v, w :
    IF v.sign < 0 /\ w.sign < 0 THEN MagLess(MathAbs(w), MathAbs(v))
    ELSE IF v.sign < 0 THEN TRUE
    ELSE IF w.sign < 0 THEN FALSE
    ELSE MagLess(v, w))

\* v + w for v, w # 0
AddAligned(v, w, e) ==
  Bind2(ShiftLeft(v.m, v.e - e), ShiftLeft(w.m, w.e - e), LAMBDA a, b :
    IF v.sign = w.sign THEN RoundToDouble(v.sign, BigAdd(a, b), <<1>>, e)
    ELSE IF a = b THEN FloatZero
    ELSE IF BigLess(a, b) THEN RoundToDouble(w.sign, BigSub(b, a), <<1>>, e)
    ELSE RoundToDouble(v.sign, BigSub(a, b), <<1>>, e))

FloatAdd(x, y) ==
  Bind2(x, y, LAMBDA v, w :
    IF v.sign = 0 THEN w
    ELSE IF w.sign = 0 THEN v
    ELSE AddAligned(v, w, IF v.e < w.e THEN v.e ELSE w.e))

FloatSub(x, y) == FloatAdd(x, FloatNeg(y))

FloatMul(x, y) ==
  Bind2(x, y, LAMBDA v, w :
    IF v.sign = 0 \/ w.sign = 0 THEN FloatZero
    ELSE RoundToDouble(v.sign * w.sign, BigMul(v.m, w.m), <<1>>, v.e + w.e))

\* x / y for y # 0
FloatDiv(x, y) ==
  Bind2(x, y, LAMBDA v, w :
    IF v.sign = 0 THEN FloatZero
    ELSE RoundToDouble(v.sign * w.sign, v.m, w.m, v.e - w.e))

\* the integer nearest to p / unit, ties upwards
DivHalfUp(p, unit) ==
  Bind2(BigDivMod(p, unit), unit, LAMBDA d, u :
    BitsToInt(d.quot, 1, Len(d.quot))
      + (IF BigLess(BigAdd(d.rem, d.rem), u) THEN 0 ELSE 1))

\* p / unit rounded to the nearest integer, ties downwards
DivHalfDown(p, unit) ==
  Bind2(BigDivMod(p, unit), unit, LAMBDA d, u :
    BitsToInt(d.quot, 1, Len(d.quot))
      + (IF BigLess(u, BigAdd(d.rem, d.rem)) THEN 1 ELSE 0))

\* the integer nearest to |x|, ties downwards
RoundHalfDown(x) ==
  Bind(x, LAMBDA v :
    IF v.sign = 0 THEN 0
    ELSE IF v.e >= 0 THEN BigToInt(ShiftLeft(v.m, v.e))
    ELSE DivHalfDown(v.m, ShiftLeft(<<1>>, 0 - v.e)))

\* the integer nearest to |x| * scale, ties upwards: Math.round of a number
\* >= 0 (scale 1) and the digits of Number.prototype.toFixed(2) (scale 100)
RoundHalfUp(x, scale) ==
  Bind(x, LAMBDA v :
    IF v.sign = 0 THEN 0
    ELSE IF v.e >= 0 THEN BigToInt(ShiftLeft(BigMul(v.m, Big(scale)), v.e))
    ELSE DivHalfUp(BigMul(v.m, Big(scale)), ShiftLeft(<<1>>, 0 - v.e)))

\* Math.round(x): the nearest integer, ties towards +Infinity
MathRound(x) ==
  Bind(x, LAMBDA v : IF v.sign < 0 THEN 0 - RoundHalfDown(v) ELSE RoundHalfUp(v, 1))

\* x.toFixed(2), in hundredths, with the sign of x
toFixed2(x) == Bind(x, LAMBDA v : v.sign * RoundHalfUp(v, 100))

\* ------------------------------------------------------------ pure helpers
\* Math.round(((original - current) / original) * 10000) / 100 of two prices
\* in cents, in hundredths of a percentage point
calculateDiscountPercent(original, current) ==
  IF original <= 0 THEN 0
  ELSE MathRound(FloatMul(FloatDiv(FloatSub(parseFloat(original), parseFloat(current)),
                                   parseFloat(original)),
                          FloatOfInt(10000)))

\* detectAndNotifyPriceChange, the numbers it computes from oldPrice and
\* newPrice (in cents): Math.abs(oldPrice - newPrice) > 0.01,
\* changePercent = ((newPrice - oldPrice) / oldPrice) * 100, and
\* changePercent.toFixed(2) in hundredths
PriceChange(oldPrice, newPrice) ==
  Bind2(parseFloat(oldPrice), parseFloat(newPrice), LAMBDA old, new :
    Bind(FloatMul(FloatDiv(FloatSub(new, old), old), FloatOfInt(100)),
         LAMBDA changePercent :
           [ differs |-> FloatLess(parseFloat(1), MathAbs(FloatSub(old, new))),
             changePercent |-> changePercent,
             fixed |-> toFixed2(changePercent) ]))

\* The numbers above, computed once for the prices that meet in a crawl (the
\* prices of one inventory and of the links shown with it) and for the
\* thresholds of the settings
\* the prices detectAndNotifyPriceChange is called with on its own: stored
\* prices and new prices one cent apart (0.20 and 0.19, 0.11 and 0.10), equal,
\* and far apart
DetectOldPrices == {11, 20, 1999, 2999}
DetectNewPrices == {10, 19, 20, 1999, 2999, 3999}

PricesOf(inventory, links) ==
  { Val(inventory[i].currentPrice) : i \in 1..Len(inventory) }
  \cup { Val(inventory[i].originalPrice) :
           i \in { k \in 1..Len(inventory) : ~IsNull(inventory[k].originalPrice) } }
  \cup { Val(l.price) : l \in { k \in links : ~IsNull(k.price) } }
  \cup { Val(l.origPrice) : l \in { k \in links : ~IsNull(k.origPrice) } }

PricePairs ==
  UNION { P \X P : P \in { PricesOf(inv, SiteInputs) : inv \in InventoryInputs }
                        \cup { PricesOf(sc.inventory, sc.site) : sc \in SerialScenarios } }
  \cup (DetectOldPrices \X DetectNewPrices)

ThresholdInputs ==
  {DefaultPriceDrop, DefaultPriceIncrease}
  \cup { c.value : c \in { d \in SettingsChanges : d.key # "notify_on_sale" } }
  \cup UNION { { Val(t) : t \in { st.price_drop_threshold, st.price_increase_threshold }
                                  \ {Null} } :
               st \in SettingsInputs \cup { sc.settings : sc \in SerialScenarios } }

\* a table: the pairs <<argument, value>> of op over the set `arguments`, and
\* the value a table holds for an argument
Tabulated(arguments, op(_)) == { <<x, op(x)>> : x \in arguments }
Lookup(table, x) == (CHOOSE row \in table : row[1] = x)[2]

DiscountOfPair(p) == calculateDiscountPercent(p[1], p[2])
DiscountTable == Tabulated({ q \in PricePairs : q[1] > q[2] }, DiscountOfPair)

PriceChangeOfPair(p) == PriceChange(p[1], p[2])
PriceChangeTable == Tabulated(PricePairs, PriceChangeOfPair)

ThresholdTable == Tabulated(ThresholdInputs, parseFloat)

\* a number used as a condition: undefined, null and 0 are falsy
Truthy(o) == ~IsNull(o) /\ Val(o) # 0

\* a text used as a condition, or with `|| undefined`: "" is falsy
TextOrNone(t) == IF t = "" THEN Null ELSE Some(t)

\* the function scrapeCategoryPage runs in the page over its product links:
\* a link whose href was seen before on the page is passed over, and a card
\* is returned for a link that has an href and a name
RECURSIVE PageEvaluate(_, _)
PageEvaluate(links, seen) ==
  IF links = <<>> THEN <<>>
  ELSE LET link == Head(links)
       IN IF link.url = "" \/ link.url \in seen
          THEN PageEvaluate(Tail(links), seen)
          ELSE (IF link.name # "" THEN <<link>> ELSE <<>>)
               \o PageEvaluate(Tail(links), seen \cup {link.url})

\* extractSkuFromUrl(url): the digits that url.match(/\/buy\/(\d+)\//) finds,
\* on the URLs of the links; the pattern does not match "/BUY/"
extractSkuFromUrl(url) ==
  IF url = "/buy/1/a" THEN Some("1")
  ELSE IF url = "/buy/2/b" THEN Some("2")
  ELSE IF url = "/buy/3/c" THEN Some("3")
  ELSE IF url = "/buy/4/d" THEN Some("4")
  ELSE Null

\* scrapeCategoryPage, the loop over the cards of one page: a card without a
\* current price is dropped, the others become CrawledProductData
ToCrawled(card) ==
  LET currentPrice == Val(card.price)
      origPrice == card.origPrice
      isOnSale == Truthy(origPrice) /\ Val(origPrice) > currentPrice
  IN [ name |-> card.name,
       url |-> card.url,
       currentPrice |-> currentPrice,
       originalPrice |-> origPrice,
       isOnSale |-> isOnSale,
       discountPercent |->
         IF isOnSale THEN Some(Lookup(DiscountTable, <<Val(origPrice), currentPrice>>))
         ELSE Null,
       imageUrl |-> TextOrNone(card.imageUrl),
       brand |-> TextOrNone(card.brand),
       sku |-> extractSkuFromUrl(card.url) ]

RECURSIVE ExtractProducts(_)
ExtractProducts(cards) ==
  IF cards = <<>> THEN <<>>
  ELSE IF ~Truthy(Head(cards).price) THEN ExtractProducts(Tail(cards))
  ELSE <<ToCrawled(Head(cards))>> \o ExtractProducts(Tail(cards))

\* the sub-categories runCrawl visits, in visiting order
RECURSIVE SubsOf(_, _)
SubsOf(cats, i) ==
  IF i > Len(cats) THEN <<>>
  ELSE [k \in 1..Len(cats[i].subs) |-> [cat |-> cats[i].cat, slug |-> cats[i].subs[k]]]
       \o SubsOf(cats, i + 1)

\* targetCategories: the requested category alone, or every key of CATEGORY_URLS
TargetSubs(category) ==
  IF category # "all"
  THEN SubsOf(SelectSeq(CATEGORY_URLS, LAMBDA c : c.cat = category), 1)
  ELSE SubsOf(CATEGORY_URLS, 1)

\* ---------------------------------------------------------------- the store
\* What db.insert(...).values(...) resolves to.  The mysql2 driver resolves to
\* the pair [ResultSetHeader, fields] (resetStuckJobs reads the header through
\* [0]); the mocked store of crawler.test.ts resolves to {insertId}.
InsertResult(shape, id) == [shape |-> shape, insertId |-> id]

\* (jobResult as { insertId?: number })?.insertId || 0
JobIdOf(jobResult) ==
  IF jobResult.shape = "object" /\ jobResult.insertId # 0 THEN jobResult.insertId ELSE 0

\* a write of `status` into the enum column: a declared value is stored; an
\* undeclared one is refused when the connection's sql_mode is strict and
\* stored as '' otherwise
EnumWrite(status, strict) ==
  IF status \in DeclaredJobStatus THEN [ok |-> TRUE, stored |-> status]
  ELSE IF strict THEN [ok |-> FALSE, stored |-> status]
  ELSE [ok |-> TRUE, stored |-> ""]

NewJobRow(jobType, category, now) ==
  [ jobType |-> jobType, status |-> "running", category |-> category,
    totalProducts |-> 0, crawledProducts |-> 0, failedProducts |-> 0,
    startedAt |-> Some(now), completedAt |-> Null ]

\* updateCrawlJob(id, {status, crawledProducts, failedProducts, completedAt}):
\* UPDATE ... WHERE id = <id>
FinalJobUpdate(rows, id, status, crawled, failed, now) ==
  [ i \in 1..Len(rows) |->
      IF i = id
      THEN [rows[i] EXCEPT !.status = status, !.crawledProducts = crawled,
                           !.failedProducts = failed, !.completedAt = Some(now)]
      ELSE rows[i] ]

\* resetStuckJobs: UPDATE crawl_jobs SET status = 'stopped', completedAt = now
\* WHERE status = 'running'
StuckRows(rows) == { i \in 1..Len(rows) : rows[i].status = "running" }

ResetRows(rows, stored, now) ==
  [ i \in 1..Len(rows) |->
      IF i \in StuckRows(rows)
      THEN [rows[i] EXCEPT !.status = stored, !.completedAt = Some(now)]
      ELSE rows[i] ]

\* getAllProducts({ isActive: true })
ActiveProducts(rows) ==
  SelectSeq([i \in 1..Len(rows) |-> [id |-> i, row |-> rows[i]]],
            LAMBDA p : p.row.isActive)

\* updateProduct(existing.id, {...}) of the discovery phase, `existing` being the
\* row of the snapshot.  db.update(products).set(data): a key whose value is
\* undefined is left out of the SET clause, so the column keeps its value
UpdateProductRow(row, product, existing, now) ==
  [ row EXCEPT
      !.currentPrice = Some(product.currentPrice),
      !.originalPrice = IF Truthy(product.originalPrice) THEN product.originalPrice ELSE @,
      !.isOnSale = product.isOnSale,
      !.discountPercent = IF Truthy(product.discountPercent) THEN product.discountPercent ELSE @,
      !.imageUrl = IF ~IsNull(product.imageUrl) THEN product.imageUrl ELSE existing.imageUrl,
      !.lastCrawledAt = Some(now) ]

\* product.update -> updateProduct(id, {isActive: false})
DeactivateProductRow(row) == [row EXCEPT !.isActive = FALSE]

\* createProduct({...}) of the discovery phase
NewProductRow(product, cat, now) ==
  [ name |-> product.name, brand |-> product.brand, sku |-> product.sku,
    url |-> product.url, imageUrl |-> product.imageUrl, category |-> cat,
    currentPrice |-> Some(product.currentPrice),
    originalPrice |-> IF Truthy(product.originalPrice) THEN product.originalPrice ELSE Null,
    isOnSale |-> product.isOnSale,
    discountPercent |-> IF Truthy(product.discountPercent) THEN product.discountPercent ELSE Null,
    isActive |-> TRUE, lastCrawledAt |-> Some(now) ]

HistoryEntry(productId, product, now) ==
  [ productId |-> productId, price |-> product.currentPrice,
    originalPrice |-> IF Truthy(product.originalPrice) THEN product.originalPrice ELSE Null,
    isOnSale |-> product.isOnSale,
    discountPercent |-> IF Truthy(product.discountPercent) THEN product.discountPercent ELSE Null,
    crawledAt |-> now ]

\* ------------------------------------------------------- change detection
\* a detector whose sale_ended notification waits for notifyOnSale too
SaleEndedGated(existing, newData, notifyOnSale) ==
  LET oldPrice == existing.row.currentPrice
      wasOnSale == existing.row.isOnSale
      isNowOnSale == newData.isOnSale
  IN IF ~wasOnSale /\ isNowOnSale /\ notifyOnSale
     THEN << [ productId |-> existing.id, type |-> "new_sale",
               oldPrice |-> IF ~IsNull(oldPrice) THEN Val(oldPrice)
                            ELSE IF ~IsNull(newData.originalPrice) THEN Val(newData.originalPrice)
                            ELSE newData.currentPrice,
               newPrice |-> newData.currentPrice,
               changePercent |-> IF IsNull(newData.discountPercent) THEN 0
                                 ELSE Val(newData.discountPercent) ] >>
     ELSE IF wasOnSale /\ ~isNowOnSale /\ notifyOnSale
     THEN << [ productId |-> existing.id, type |-> "sale_ended",
               oldPrice |-> IF IsNull(oldPrice) THEN 0 ELSE Val(oldPrice),
               newPrice |-> newData.currentPrice, changePercent |-> 0 ] >>
     ELSE <<>>

\* detectAndNotifyPriceChange: the notifications it creates, in order.
\* `existing` is a row of the snapshot taken at the start of discovery.
SaleNotification(existing, newData, notifyOnSale) ==
  LET oldPrice == existing.row.currentPrice
      wasOnSale == existing.row.isOnSale
      isNowOnSale == newData.isOnSale
  IN IF ~wasOnSale /\ isNowOnSale /\ notifyOnSale
     THEN << [ productId |-> existing.id, type |-> "new_sale",
               oldPrice |-> IF ~IsNull(oldPrice) THEN Val(oldPrice)
                            ELSE IF ~IsNull(newData.originalPrice) THEN Val(newData.originalPrice)
                            ELSE newData.currentPrice,
               newPrice |-> newData.currentPrice,
               changePercent |-> IF IsNull(newData.discountPercent) THEN 0
                                 ELSE Val(newData.discountPercent) ] >>
     ELSE IF wasOnSale /\ ~isNowOnSale
     THEN << [ productId |-> existing.id, type |-> "sale_ended",
               oldPrice |-> IF IsNull(oldPrice) THEN 0 ELSE Val(oldPrice),
               newPrice |-> newData.currentPrice, changePercent |-> 0 ] >>
     ELSE <<>>

PriceNotification(existing, newData, priceDrop, priceIncrease) ==
  LET oldPrice == existing.row.currentPrice
      newPrice == newData.currentPrice
  IN IF Truthy(oldPrice) /\ Lookup(PriceChangeTable, <<Val(oldPrice), newPrice>>).differs
     THEN LET change == Lookup(PriceChangeTable, <<Val(oldPrice), newPrice>>)
              changePercent == change.changePercent
              note(type) == [ productId |-> existing.id, type |-> type,
                              oldPrice |-> Val(oldPrice), newPrice |-> newPrice,
                              changePercent |-> change.fixed ]
          IN IF /\ changePercent.sign < 0
                /\ ~FloatLess(MathAbs(changePercent), Lookup(ThresholdTable, priceDrop))
             THEN << note("price_drop") >>
             ELSE IF /\ changePercent.sign > 0
                     /\ ~FloatLess(changePercent, Lookup(ThresholdTable, priceIncrease))
             THEN << note("price_increase") >>
             ELSE <<>>
     ELSE <<>>

\* a detector that looks at the price only when the sale status gave nothing
detectSaleElsePrice(existing, newData, s) ==
  IF newData.currentPrice = 0 THEN <<>>
  ELSE IF SaleNotification(existing, newData, s.notifyOnSale) # <<>>
  THEN SaleNotification(existing, newData, s.notifyOnSale)
  ELSE PriceNotification(existing, newData, s.priceDrop, s.priceIncrease)

detectAndNotifyPriceChange(existing, newData, s) ==
  IF newData.currentPrice = 0 THEN <<>>
  ELSE SaleNotification(existing, newData, s.notifyOnSale)
       \o PriceNotification(existing, newData, s.priceDrop, s.priceIncrease)

\* ------------------------------------------------------------ initial state
\* options.productIds: absent, or the id of the first product
ProductIdsInputs == { Null, Some({1}) }

\* options.discoverNew as the callers pass it: crawl.trigger and the scheduler
\* leave it undefined
DiscoverNewInputs == {Null}

\* the locals of the try block of runCrawl, before discovery and after it
NoLocals ==
  [ existingProducts |-> <<>>, existingUrls |-> {}, subIdx |-> 0, page |-> 0,
    browser |-> Null, discovered |-> <<>> ]

IdleRun ==
  [ pc |-> "idle", category |-> "all", jobType |-> "manual", discoverNew |-> Null,
    productIds |-> Null,
    priceDrop |-> 0, priceIncrease |-> 0, notifyOnSale |-> FALSE,
    jobId |-> 0, crawledCount |-> 0, failedCount |-> 0, newProductsCount |-> 0,
    existingProducts |-> <<>>, existingUrls |-> {},
    subIdx |-> 0, page |-> 0, browser |-> Null, discovered |-> <<>>,
    closing |-> Null, wasStopped |-> FALSE,
    \* bookkeeping of the verification, not program state
    row |-> Null,          \* the crawl_jobs row this invocation inserted
    overlapped |-> FALSE,  \* another invocation was live during this one
    stopAcked |-> FALSE,   \* stopCrawl answered stopped:true while this run was
                           \* the registered job and in discovery
    stopDuring |-> FALSE,  \* stopCrawl was called after this run registered
    flagSeen |-> FALSE,    \* a loop check of this run found the flag set
    countAtFlag |-> 0,     \* crawledCount at that check
    fetchAfterFlag |-> 0,  \* page number of a fetch started with the flag set
    fetchFailed |-> FALSE, \* a pageObj.goto() of this run rejected
    fetchServed |-> FALSE, \* a pageObj.goto() of this run resolved
    sinceFetch |-> "none", \* since the last pageObj.goto() of this run, if any
                           \* ("fetched"), a sleep(CRAWL_DELAY_MS) ended
                           \* ("delayed")
    bodyFailed |-> 0,      \* failedCount when the job body was left
    bodyCrawled |-> 0,     \* crawledCount when the job body was left
    finalWrites |-> 0,     \* final status updates issued
    rejected |-> FALSE,    \* runCrawl rejected
    reply |-> Null,        \* what crawl.trigger returned to its caller
    surfaced |-> "none",   \* where a rejection of runCrawl ended
    selected |-> {} ]      \* ids of productsToUpdate when phase 2 used them

\* scheduler.ts at module load: `let schedulerInterval = null`, `let
\* nextRunTime = null`, no timer created.  A timer is "pending", "cleared"
\* (clearTimeout before it fired), "running" (its callback awaits runCrawl in
\* slot `run`) or "finished".  The other fields are bookkeeping: the number of
\* calls of startScheduler and stopScheduler, the last step of the scheduler,
\* whether stopScheduler has returned with no startScheduler since, and
\* whether stopScheduler was ever called while a timer callback was running.
NoScheduler ==
  [ schedulerInterval |-> Null, nextRunTime |-> Null, timers |-> <<>>,
    calls |-> 0, lastCall |-> "none", halted |-> FALSE, midCrawlStop |-> FALSE ]

\* no call of detectAndNotifyPriceChange is in progress
NoDetectCall == [pc |-> "idle", product |-> Null, newData |-> Null, settings |-> Null]

\* no call of scrapeChemistWarehouseProduct is in progress
NoScrapeCall == [pc |-> "idle", page |-> Null, returned |-> Null]

\* no call of parsePrice is in progress
NoPriceCall == [pc |-> "idle", priceStr |-> Null, parsed |-> Null]

\* the state of a server that has started, but for what is in its tables,
\* what the site shows and how far the crawls are followed
Started ==
  /\ priceCall = NoPriceCall
  /\ scrapeCall = NoScrapeCall
  /\ scheduler = NoScheduler
  /\ detectCall = NoDetectCall
  /\ crawlStopped = FALSE
  /\ currentJobId = Null
  /\ browserInstance = Null
  /\ browsers = <<>>
  /\ jobs = <<>>
  /\ priceHistory = <<>>
  /\ notifications = <<>>
  /\ run = [r \in Runs |-> IdleRun]
  /\ lastStop = [stopped |-> FALSE, jobId |-> Null]
  /\ lastReset = [returned |-> Null, threw |-> FALSE]
  /\ ownerNotes = <<>>
  /\ clock = 1
  /\ started = 0 /\ served = 0 /\ faults = 0 /\ stops = 0 /\ resets = 0

Init ==
  /\ resultShape \in {"tuple", "object"}
  /\ settings \in SettingsInputs
  /\ site = SiteInputs
  /\ limits = [ jobs |-> MaxJobs, served |-> MaxServed,
                disturbances |-> MaxDisturbances, deactivated |-> 0,
                settingsChanges |-> 0, overlap |-> TRUE, refresh |-> FALSE, schedulerCalls |-> 0 ]
  /\ products \in InventoryInputs
  /\ Started

\* the pcs of the discovery phase, of the whole try/finally, and of an
\* invocation that has not returned
DiscoveryPcs == { "load", "launch", "page", "reconcile", "subDelay" }
BodyPcs == DiscoveryPcs \cup { "phase2", "closing" }
LivePcs == {"create"} \cup BodyPcs \cup {"final", "notify"}

Live(r) == run[r].pc \in LivePcs

\* ------------------------------------------------- stopCrawl, resetStuckJobs
\* stopCrawl(): the new value of _crawlStopped and the value returned
StopRequest(jobId, flag) ==
  IF ~IsNull(jobId)
  THEN [flag |-> TRUE, result |-> [stopped |-> TRUE, jobId |-> jobId]]
  ELSE [flag |-> flag, result |-> [stopped |-> FALSE, jobId |-> Null]]

\* crawl.stop -> stopCrawl()
stopCrawl ==
  /\ Disturbances < limits.disturbances
  /\ stops' = stops + 1
  /\ crawlStopped' = StopRequest(currentJobId, crawlStopped).flag
  /\ lastStop' = StopRequest(currentJobId, crawlStopped).result
  /\ run' = [ r \in Runs |->
                [ run[r] EXCEPT
                    !.stopDuring = @ \/ run[r].pc \in BodyPcs \cup {"final", "notify"},
                    !.stopAcked = @ \/ ( /\ ~IsNull(currentJobId)
                                         /\ run[r].pc \in DiscoveryPcs
                                         /\ currentJobId = Some(run[r].jobId) ) ] ]
  /\ UNCHANGED << envVars, currentJobId, browserInstance, browsers, storeVars,
                  lastReset, ownerNotes, clock, started, served, faults, resets >>

\* crawl.resetStuck -> resetStuckJobs()
resetStuckJobs ==
  /\ Disturbances < limits.disturbances
  /\ resets' = resets + 1
  /\ \E strict \in BOOLEAN :
       LET w == EnumWrite("stopped", strict)
           hit == StuckRows(jobs)
       IN IF hit # {} /\ ~w.ok
          THEN \* the UPDATE is refused: the promise rejects, no row changes
               /\ jobs' = jobs
               /\ clock' = clock
               /\ lastReset' = [returned |-> Null, threw |-> TRUE]
          ELSE /\ jobs' = ResetRows(jobs, w.stored, clock + 1)
               /\ clock' = IF hit # {} THEN clock + 1 ELSE clock
               /\ lastReset' = [returned |-> Some(Cardinality(hit)), threw |-> FALSE]
  /\ UNCHANGED << envVars, procVars, products, priceHistory, notifications, run,
                  lastStop, ownerNotes, started, served, faults, stops >>

\* ------------------------------------------------------------------ runCrawl
SetRun(r, rec) == run' = [run EXCEPT ![r] = rec]

\* browser.isConnected() of the shared handle
Connected(handle) == ~IsNull(handle) /\ browsers[Val(handle)] = "open"

\* closeBrowser() up to its await: close() is called on the shared browser
CloseCall(bs, handle) ==
  IF IsNull(handle) THEN bs ELSE [bs EXCEPT ![Val(handle)] = "closed"]

\* a finally block that forgets `_currentJobId = null`
FinallyKeepsJobId(closing) ==
  [ browserInstance |-> IF IsNull(closing) THEN browserInstance ELSE Null,
    currentJobId |-> currentJobId,
    crawlStopped |-> FALSE ]

\* the value of the shared state after the finally block: closeBrowser()
\* clears the handle if it had found a browser, then _currentJobId = null and
\* _crawlStopped = false
FinallyBlock(closing) ==
  [ browserInstance |-> IF IsNull(closing) THEN browserInstance ELSE Null,
    currentJobId |-> Null,
    crawlStopped |-> FALSE ]

\* The job body is left (normally or through `catch (error)`) and the finally
\* block starts.  With no shared browser closeBrowser() awaits nothing and the
\* block runs to its end, down to `const wasStopped = _crawlStopped` and the
\* call of the final updateCrawlJob; otherwise close() is called and awaited.
LeaveBody(r, rec) ==
  LET out == [rec EXCEPT !.bodyFailed = rec.failedCount,
                         !.bodyCrawled = rec.crawledCount,
                         !.existingProducts = NoLocals.existingProducts,
                         !.existingUrls = NoLocals.existingUrls,
                         !.subIdx = NoLocals.subIdx, !.page = NoLocals.page,
                         !.browser = NoLocals.browser,
                         !.discovered = NoLocals.discovered]
  IN IF IsNull(browserInstance)
     THEN LET after == FinallyBlock(Null)
          IN /\ SetRun(r, [out EXCEPT !.pc = "final",
                                      !.wasStopped = after.crawlStopped])
             /\ browserInstance' = after.browserInstance
             /\ currentJobId' = after.currentJobId
             /\ crawlStopped' = after.crawlStopped
             /\ browsers' = browsers
     ELSE /\ SetRun(r, [out EXCEPT !.pc = "closing", !.closing = browserInstance])
          /\ browsers' = CloseCall(browsers, browserInstance)
          /\ UNCHANGED << browserInstance, currentJobId, crawlStopped >>

\* The head of the loops over targetCategories and categoryUrls, reached with
\* sub-category number idx, up to the first await of scrapeCategoryPage:
\* both loops test _crawlStopped and break; otherwise getBrowser() is called,
\* which launches a browser unless the shared one is connected.
\* After the last sub-category the loops end without a test and phase 2 starts.
EnterSub(rec, idx) ==
  IF idx > Len(TargetSubs(rec.category))
  THEN [rec EXCEPT !.pc = "phase2", !.subIdx = idx]
  ELSE IF crawlStopped
  THEN [rec EXCEPT !.pc = "phase2", !.subIdx = idx, !.flagSeen = TRUE,
                   !.countAtFlag = rec.crawledCount]
  ELSE IF Connected(browserInstance)
  THEN [rec EXCEPT !.pc = "page", !.subIdx = idx, !.page = 1,
                   !.discovered = <<>>, !.browser = browserInstance]
  ELSE [rec EXCEPT !.pc = "launch", !.subIdx = idx, !.page = 0,
                   !.discovered = <<>>, !.browser = Null]

\* `catch (err)` around one sub-category: failedCount++, next sub-category
SubError(rec) ==
  EnterSub([rec EXCEPT !.failedCount = @ + 1, !.discovered = <<>>], rec.subIdx + 1)

\* scrapeCategoryPage has returned: the loop over `discovered` starts, or, with
\* nothing discovered, the delay between sub-categories
AfterScrape(rec) ==
  IF rec.discovered = <<>> THEN [rec EXCEPT !.pc = "subDelay"]
  ELSE [rec EXCEPT !.pc = "reconcile"]

\* a new invocation takes the first free slot
Startable(r) ==
  /\ ~Live(r)
  /\ r = "r1" \/ (limits.overlap /\ Live("r1"))
  /\ started < limits.jobs

\* what the caller of runCrawl hands back at once: crawl.trigger does not
\* await the promise and returns {success: true, message}; the timer callback
\* of the scheduler has no caller
ReplyOf(jobType) ==
  IF jobType = "manual" THEN Some([success |-> TRUE]) ELSE Null

\* a caller that does nothing about the promise
CallerIgnores(jobType) == "unhandled"

\* where a rejection of runCrawl ends: crawl.trigger attaches
\* .catch(err => console.error(...)), the scheduler awaits inside try/catch
CallerCatches(jobType) == "logged"

\* runCrawl rejects: an awaited store call outside its try block rejected
RejectRun(rec, pc) ==
  [rec EXCEPT !.pc = pc, !.rejected = TRUE, !.surfaced = CallerCatches(rec.jobType)]

\* runCrawl is called with its options
CalledRun(r, category, jobType, discoverNew) ==
  [IdleRun EXCEPT !.category = category, !.jobType = jobType,
                  !.discoverNew = discoverNew, !.reply = ReplyOf(jobType),
                  !.overlapped = \E o \in Runs \ {r} : Live(o)]

\* priceDrop, priceIncrease and notifyOnSale as runCrawl computes them from
\* the rows of crawler_settings
ReadSettings(rows) ==
  [ priceDrop |-> IF ~IsNull(rows.price_drop_threshold)
                  THEN Val(rows.price_drop_threshold) ELSE DefaultPriceDrop,
    priceIncrease |-> IF ~IsNull(rows.price_increase_threshold)
                      THEN Val(rows.price_increase_threshold) ELSE DefaultPriceIncrease,
    notifyOnSale |-> rows.notify_on_sale # Some("false") ]

\* runCrawl up to the call of createCrawlJob: getCrawlerSettings() resolves and
\* the thresholds are read
RunCrawlWith(r, category, jobType, discoverNew, productIds) ==
  run' = [ q \in Runs |->
    IF q = r
    THEN [CalledRun(r, category, jobType, discoverNew) EXCEPT
            !.pc = "create",
            !.productIds = productIds,
            !.priceDrop = ReadSettings(settings).priceDrop,
            !.priceIncrease = ReadSettings(settings).priceIncrease,
            !.notifyOnSale = ReadSettings(settings).notifyOnSale]
    ELSE [run[q] EXCEPT !.overlapped = @ \/ Live(q)] ]

\* the same without productIds
StartRun(r, category, jobType, discoverNew) ==
  RunCrawlWith(r, category, jobType, discoverNew, Null)

\* getCrawlerSettings() rejects: runCrawl rejects before it has a job
SettingsReject(r, category, jobType, discoverNew) ==
  run' = [ q \in Runs |->
    IF q = r
    THEN RejectRun(CalledRun(r, category, jobType, discoverNew), "rejected")
    ELSE [run[q] EXCEPT !.overlapped = @ \/ Live(q)] ]

\* crawl.trigger: runCrawl({category, jobType: "manual", productIds}) is called
\* and not awaited
crawlTrigger(r) ==
  /\ Startable(r)
  /\ started' = started + 1
  /\ \E c \in CategoryInputs, d \in DiscoverNewInputs :
       \/ /\ \E ids \in (IF limits.refresh THEN ProductIdsInputs ELSE {Null}) :
               RunCrawlWith(r, c, "manual", d, ids)
          /\ UNCHANGED faults
       \/ /\ Disturbances < limits.disturbances
          /\ faults' = faults + 1
          /\ SettingsReject(r, c, "manual", d)
  /\ UNCHANGED << envVars, procVars, storeVars, lastStop, lastReset, ownerNotes,
                  clock, served, stops, resets >>

\* runCrawl({category, productIds, discoverNew: false}): the exported function
\* called with discovery switched off, which no caller in the repository does
runCrawlCall(r) ==
  /\ limits.refresh
  /\ Startable(r)
  /\ started' = started + 1
  /\ \E c \in CategoryInputs, ids \in ProductIdsInputs :
       RunCrawlWith(r, c, "manual", Some(FALSE), ids)
  /\ UNCHANGED << envVars, procVars, storeVars, lastStop, lastReset, ownerNotes,
                  clock, served, faults, stops, resets >>

\* runCrawl({jobType: "scheduled", category: "all"}) is called
ScheduledRun(r) ==
  /\ Startable(r)
  /\ started' = started + 1
  /\ \/ StartRun(r, "all", "scheduled", Null) /\ UNCHANGED faults
     \/ /\ Disturbances < limits.disturbances
        /\ faults' = faults + 1
        /\ SettingsReject(r, "all", "scheduled", Null)

\* the scheduler's timer: runCrawl({jobType: "scheduled", category: "all"})
scheduledCrawl(r) ==
  /\ ScheduledRun(r)
  /\ UNCHANGED << envVars, procVars, storeVars, lastStop, lastReset, ownerNotes,
                  clock, served, stops, resets >>

\* a registration that forgets `_crawlStopped = false`
RegisterKeepsFlag(jobId) == [currentJobId |-> Some(jobId), crawlStopped |-> crawlStopped]

\* the registration of a job: _currentJobId = jobId; _crawlStopped = false
RegisterJob(jobId) == [currentJobId |-> Some(jobId), crawlStopped |-> FALSE]

\* createCrawlJob inserts the row with status "running" and resolves: jobId is
\* taken from the result, the job is registered as the active one and the stop
\* flag is reset; the job body starts and calls getAllProducts.  Or it
\* rejects (no database, or the insert fails) and runCrawl rejects.
CreateJob(r) ==
  /\ run[r].pc = "create"
  /\ \/ /\ jobs' = Append(jobs, NewJobRow(run[r].jobType, run[r].category, clock))
        /\ LET jobId == JobIdOf(InsertResult(resultShape, Len(jobs) + 1))
               shouldDiscover == run[r].discoverNew # Some(FALSE)
           IN /\ currentJobId' = RegisterJob(jobId).currentJobId
              /\ crawlStopped' = RegisterJob(jobId).crawlStopped
              /\ SetRun(r, [run[r] EXCEPT
                   !.jobId = jobId, !.row = Some(Len(jobs) + 1),
                   !.pc = IF shouldDiscover THEN "load" ELSE "phase2"])
        /\ UNCHANGED faults
     \/ /\ Disturbances < limits.disturbances
        /\ faults' = faults + 1
        /\ SetRun(r, RejectRun(run[r], "rejected"))
        /\ UNCHANGED << jobs, currentJobId, crawlStopped >>
  /\ UNCHANGED << envVars, browserInstance, browsers, products, priceHistory,
                  notifications, lastStop, lastReset, ownerNotes, clock,
                  started, served, stops, resets >>

\* getAllProducts({isActive: true}) resolves: existingProducts and existingUrls
\* are built and the loops start; or it rejects, which ends the job body
\* through `catch (error)`: failedCount++
LoadExisting(r) ==
  /\ run[r].pc = "load"
  /\ \/ /\ LET existing == ActiveProducts(products)
               rec == [run[r] EXCEPT
                         !.existingProducts = existing,
                         !.existingUrls = { ToLowerCase(existing[i].row.url) :
                                            i \in 1..Len(existing) }]
           IN SetRun(r, EnterSub(rec, 1))
        /\ UNCHANGED << procVars, faults >>
     \/ /\ Disturbances < limits.disturbances
        /\ faults' = faults + 1
        /\ LeaveBody(r, [run[r] EXCEPT !.failedCount = @ + 1])
  /\ UNCHANGED << envVars, storeVars, lastStop, lastReset, ownerNotes, clock,
                  started, served, stops, resets >>

\* the product links of one category page: none, or one of those the site shows
PageContents(shown) == { <<>> } \cup { <<l>> : l \in shown }

\* chromium.launch() resolves: the new browser becomes the shared instance and
\* browser.newContext() is called
Launch(r) ==
  /\ run[r].pc = "launch"
  /\ browsers' = Append(browsers, "open")
  /\ browserInstance' = Some(Len(browsers) + 1)
  /\ SetRun(r, [run[r] EXCEPT !.pc = "page", !.page = 1,
                              !.browser = Some(Len(browsers) + 1)])
  /\ UNCHANGED << envVars, crawlStopped, currentJobId, storeVars, lastStop,
                  lastReset, ownerNotes, clock, budgetVars >>

\* chromium.launch(), browser.newContext() or context.newPage() rejects: the
\* error leaves scrapeCategoryPage and reaches the catch of the sub-category
ScrapeThrows(r) ==
  /\ run[r].pc \in {"launch", "page"}
  /\ Disturbances < limits.disturbances
  /\ faults' = faults + 1
  /\ SetRun(r, SubError(run[r]))
  /\ UNCHANGED << envVars, procVars, storeVars, lastStop, lastReset, ownerNotes,
                  clock, started, served, stops, resets >>

\* One iteration of `for (page = 1; page <= maxPages; page++)`: (newContext
\* resolves, or the sleep after the previous page ends,) newPage, goto, the
\* extraction, the next-page test, pageObj.close(), and the loop test that
\* follows.  Nothing on this path reads _crawlStopped.
FetchPage(r) ==
  /\ run[r].pc = "page"
  /\ LET rec == [run[r] EXCEPT
                   !.fetchAfterFlag = IF crawlStopped /\ @ = 0 THEN run[r].page ELSE @]
     IN \/ \* the browser was closed under this run: newContext or newPage rejects
           /\ browsers[Val(run[r].browser)] # "open"
           /\ SetRun(r, SubError(run[r]))
           /\ UNCHANGED << served, faults >>
        \/ \* goto rejects (timeout, navigation failure): caught, break
           /\ browsers[Val(run[r].browser)] = "open"
           /\ Disturbances < limits.disturbances
           /\ faults' = faults + 1
           /\ SetRun(r, AfterScrape([rec EXCEPT !.fetchFailed = TRUE,
                                                !.sinceFetch = "fetched"]))
           /\ UNCHANGED served
        \/ \* the page is served
           /\ browsers[Val(run[r].browser)] = "open"
           /\ \E links \in PageContents(site), hasNextPage \in BOOLEAN :
                /\ links # <<>> => served < limits.served
                /\ served' = IF links # <<>> THEN served + 1 ELSE served
                /\ LET cards == PageEvaluate(links, {})
                       got == [rec EXCEPT !.discovered = @ \o ExtractProducts(cards),
                                          !.fetchServed = TRUE,
                                          !.sinceFetch = "fetched"]
                   IN IF ~hasNextPage \/ Len(cards) = 0 \/ rec.page + 1 > MaxPagesPerSub
                      THEN SetRun(r, AfterScrape(got))
                      ELSE SetRun(r, [got EXCEPT !.page = @ + 1,
                                                 !.sinceFetch = "delayed"])
           /\ UNCHANGED faults
  /\ UNCHANGED << envVars, procVars, storeVars, lastStop, lastReset, ownerNotes,
                  clock, started, stops, resets >>

\* the rows of the snapshot whose lower-cased URL is normalizedUrl
Matching(rec, normalizedUrl) ==
  { i \in 1..Len(rec.existingProducts) :
      ToLowerCase(rec.existingProducts[i].row.url) = normalizedUrl }

\* the loop over `discovered` moves on to the next record, or ends and calls
\* sleep(CRAWL_DELAY_MS)
NextRecord(rec) ==
  IF Tail(rec.discovered) = <<>>
  THEN [rec EXCEPT !.discovered = <<>>, !.pc = "subDelay"]
  ELSE [rec EXCEPT !.discovered = Tail(@)]

\* a reconciliation that reads crawler_settings again for every record
ThresholdsNow(rec) == ReadSettings(settings)

\* the thresholds handed to detectAndNotifyPriceChange: the constants of the
\* invocation
Thresholds(rec) ==
  [ priceDrop |-> rec.priceDrop, priceIncrease |-> rec.priceIncrease,
    notifyOnSale |-> rec.notifyOnSale ]

\* !product.url || !product.name || !product.currentPrice
Incomplete(product) == product.url = "" \/ product.name = "" \/ product.currentPrice = 0

\* one iteration of `for (const product of discovered)`
ReconcileOne(r) ==
  /\ run[r].pc = "reconcile"
  /\ LET rec == run[r]
         product == Head(rec.discovered)
         normalizedUrl == ToLowerCase(product.url)
         cat == TargetSubs(rec.category)[rec.subIdx].cat
     IN IF Incomplete(product)
        THEN \* `continue`
             /\ SetRun(r, NextRecord(rec))
             /\ UNCHANGED << products, priceHistory, notifications >>
        ELSE IF normalizedUrl \in rec.existingUrls
        THEN IF Matching(rec, normalizedUrl) = {}
             THEN \* existingProducts.find(...) is undefined: nothing is done
                  /\ SetRun(r, NextRecord(rec))
                  /\ UNCHANGED << products, priceHistory, notifications >>
             ELSE \E i \in Matching(rec, normalizedUrl) :
                    LET existing == rec.existingProducts[i]
                    IN /\ \A k \in Matching(rec, normalizedUrl) : i <= k
                       /\ notifications' = notifications \o
                            detectAndNotifyPriceChange(existing, product, Thresholds(rec))
                       /\ products' = [products EXCEPT ![existing.id] =
                                         UpdateProductRow(@, product, existing.row, clock)]
                       /\ priceHistory' =
                            Append(priceHistory, HistoryEntry(existing.id, product, clock))
                       /\ SetRun(r, NextRecord([rec EXCEPT !.crawledCount = @ + 1]))
        ELSE /\ products' = Append(products, NewProductRow(product, cat, clock))
             /\ SetRun(r, NextRecord([rec EXCEPT
                  !.existingUrls = @ \cup {normalizedUrl},
                  !.newProductsCount = @ + 1, !.crawledCount = @ + 1]))
             /\ UNCHANGED << priceHistory, notifications >>
  /\ UNCHANGED << envVars, procVars, jobs, lastStop, lastReset, ownerNotes,
                  clock, budgetVars >>

\* a store call of that iteration rejects: createNotification ("detect"),
\* updateProduct ("update", after the notifications), addPriceHistory
\* ("history", after the update) or createProduct; the error reaches the
\* catch of the sub-category
ReconcileThrows(r) ==
  /\ run[r].pc = "reconcile"
  /\ Disturbances < limits.disturbances
  /\ faults' = faults + 1
  /\ ~Incomplete(Head(run[r].discovered))
  /\ LET rec == run[r]
         product == Head(rec.discovered)
         normalizedUrl == ToLowerCase(product.url)
     IN IF normalizedUrl \in rec.existingUrls
        THEN /\ Matching(rec, normalizedUrl) # {}
             /\ \E i \in Matching(rec, normalizedUrl),
                   stage \in {"detect", "update", "history"} :
                  LET existing == rec.existingProducts[i]
                  IN /\ \A k \in Matching(rec, normalizedUrl) : i <= k
                     /\ notifications' =
                          IF stage = "detect" THEN notifications
                          ELSE notifications \o
                               detectAndNotifyPriceChange(existing, product, Thresholds(rec))
                     /\ products' =
                          IF stage = "history"
                          THEN [products EXCEPT ![existing.id] =
                                  UpdateProductRow(@, product, existing.row, clock)]
                          ELSE products
        ELSE UNCHANGED << products, notifications >>
  /\ SetRun(r, SubError(run[r]))
  /\ UNCHANGED << envVars, procVars, jobs, priceHistory, lastStop, lastReset,
                  ownerNotes, clock, started, served, stops, resets >>

\* sleep(CRAWL_DELAY_MS) after a sub-category resolves: next sub-category
SubDelay(r) ==
  /\ run[r].pc = "subDelay"
  /\ SetRun(r, EnterSub([run[r] EXCEPT !.sinceFetch = "delayed"], run[r].subIdx + 1))
  /\ UNCHANGED << envVars, procVars, storeVars, lastStop, lastReset, ownerNotes,
                  clock, budgetVars >>

\* getAllProducts({category, isActive: true}) of phase 2
ManualProducts(rows, category) ==
  SelectSeq(ActiveProducts(rows),
            LAMBDA p : category = "all" \/ p.row.category = category)

\* productsToUpdate, as the sets of indices of manualProducts it can be: the
\* products whose id is in options.productIds, or else those never crawled
\* together with those crawled more than an hour ago, which any of the
\* products crawled before may be
ProductsToUpdate(manualProducts, productIds) ==
  IF ~IsNull(productIds)
  THEN { { i \in 1..Len(manualProducts) : manualProducts[i].id \in Val(productIds) } }
  ELSE LET never == { i \in 1..Len(manualProducts) :
                        IsNull(manualProducts[i].row.lastCrawledAt) }
       IN { never \cup old : old \in SUBSET ((1..Len(manualProducts)) \ never) }

\* phase 2: getAllProducts resolves; with discovery skipped and a non-empty
\* selection totalProducts is written; the job body ends.  Or getAllProducts
\* rejects: `catch (error)`, failedCount++.  A product crawled before may or
\* may not be older than one hour.
Phase2(r) ==
  /\ run[r].pc = "phase2"
  /\ \/ /\ LET shouldDiscover == run[r].discoverNew # Some(FALSE)
               manualProducts == ManualProducts(products, run[r].category)
           IN IF shouldDiscover
              THEN jobs' = jobs /\ LeaveBody(r, run[r])
              ELSE \E productsToUpdate \in ProductsToUpdate(manualProducts,
                                                              run[r].productIds) :
                     /\ jobs' = IF productsToUpdate # {}
                                THEN [ i \in 1..Len(jobs) |->
                                         IF i = run[r].jobId
                                         THEN [jobs[i] EXCEPT !.totalProducts =
                                                 Cardinality(productsToUpdate)]
                                         ELSE jobs[i] ]
                                ELSE jobs
                     /\ LeaveBody(r, [run[r] EXCEPT !.selected =
                                        { manualProducts[i].id : i \in productsToUpdate }])
        /\ UNCHANGED faults
     \/ /\ Disturbances < limits.disturbances
        /\ faults' = faults + 1
        /\ LeaveBody(r, [run[r] EXCEPT !.failedCount = @ + 1])
        /\ jobs' = jobs
  /\ UNCHANGED << envVars, products, priceHistory, notifications, lastStop,
                  lastReset, ownerNotes, clock, started, served, stops, resets >>

\* status of the final updateCrawlJob
FinalStatus(wasStopped, failedCount, crawledCount) ==
  IF wasStopped THEN "stopped"
  ELSE IF failedCount > 0 /\ crawledCount = 0 THEN "failed"
  ELSE "completed"

\* browserInstance.close() resolves and the finally block ends;
\* `const wasStopped = _crawlStopped` is read and the final updateCrawlJob
\* is called
FinallyDone(r) ==
  /\ run[r].pc = "closing"
  /\ LET after == FinallyBlock(run[r].closing)
     IN /\ browserInstance' = after.browserInstance
        /\ currentJobId' = after.currentJobId
        /\ crawlStopped' = after.crawlStopped
        /\ SetRun(r, [run[r] EXCEPT !.pc = "final",
                                    !.wasStopped = after.crawlStopped])
  /\ UNCHANGED << envVars, browsers, storeVars, lastStop, lastReset, ownerNotes,
                  clock, budgetVars >>

\* the final updateCrawlJob(jobId, {status, crawledProducts, failedProducts,
\* completedAt}) resolves; then notifyOwner is called or runCrawl returns.
\* Or the update rejects (a status the column refuses, or the store fails)
\* and runCrawl rejects.
Finalize(r) ==
  /\ run[r].pc = "final"
  /\ \/ /\ \E strict \in BOOLEAN :
             LET rec == run[r]
                 w == EnumWrite(FinalStatus(rec.wasStopped, rec.failedCount,
                                            rec.crawledCount), strict)
             IN IF ~w.ok /\ rec.jobId \in 1..Len(jobs)
                THEN /\ jobs' = jobs
                     /\ SetRun(r, RejectRun([rec EXCEPT !.finalWrites = @ + 1], "done"))
                ELSE /\ jobs' = FinalJobUpdate(jobs, rec.jobId, w.stored,
                                               rec.crawledCount, rec.failedCount, clock)
                     /\ SetRun(r, [rec EXCEPT
                          !.finalWrites = @ + 1,
                          !.pc = IF rec.crawledCount > 0 \/ rec.newProductsCount > 0
                                 THEN "notify" ELSE "done"])
        /\ UNCHANGED faults
     \/ /\ Disturbances < limits.disturbances
        /\ faults' = faults + 1
        /\ jobs' = jobs
        /\ SetRun(r, RejectRun([run[r] EXCEPT !.finalWrites = @ + 1], "done"))
  /\ UNCHANGED << envVars, procVars, products, priceHistory, notifications,
                  lastStop, lastReset, ownerNotes, clock, started, served, stops,
                  resets >>

\* notifyOwner resolves or rejects (the rejection is swallowed); runCrawl returns
NotifyOwner(r) ==
  /\ run[r].pc = "notify"
  /\ \E delivered \in BOOLEAN :
       ownerNotes' = Append(ownerNotes, run[r].row)
  /\ SetRun(r, [run[r] EXCEPT !.pc = "done"])
  /\ UNCHANGED << envVars, procVars, storeVars, lastStop, lastReset, clock,
                  budgetVars >>

Next ==
  \/ stopCrawl
  \/ resetStuckJobs
  \/ \E r \in Runs : crawlTrigger(r)
  \/ \E r \in Runs : scheduledCrawl(r)
  \/ \E r \in Runs : CreateJob(r)
  \/ \E r \in Runs : LoadExisting(r)
  \/ \E r \in Runs : Launch(r)
  \/ \E r \in Runs : ScrapeThrows(r)
  \/ \E r \in Runs : FetchPage(r)
  \/ \E r \in Runs : ReconcileOne(r)
  \/ \E r \in Runs : ReconcileThrows(r)
  \/ \E r \in Runs : SubDelay(r)
  \/ \E r \in Runs : Phase2(r)
  \/ \E r \in Runs : FinallyDone(r)
  \/ \E r \in Runs : Finalize(r)
  \/ \E r \in Runs : NotifyOwner(r)

Spec == Init /\ [][Next]_vars

\* ------------------------------------------- crawls that follow one another
\* product.update with {isActive: false} for an active product
productUpdate ==
  /\ Cardinality({ i \in 1..Len(products) : ~products[i].isActive }) < limits.deactivated
  /\ \E id \in { i \in 1..Len(products) : products[i].isActive } :
       products' = [products EXCEPT ![id] = DeactivateProductRow(@)]
  /\ UNCHANGED << envVars, procVars, jobs, priceHistory, notifications, run,
                  lastStop, lastReset, ownerNotes, clock, budgetVars >>

\* settings.update({key, value}) -> updateCrawlerSetting: the row of the key is
\* inserted or its value replaced, at a later time than anything before it
\* (crawls that follow one another see the clock advance with these calls
\* only, so the clock counts them)
settingsUpdate ==
  /\ clock - 1 < limits.settingsChanges
  /\ \E c \in SettingsChanges :
       /\ settings[c.key] # Some(c.value)
       /\ settings' = [settings EXCEPT ![c.key] = Some(c.value)]
  /\ clock' = clock + 1
  /\ UNCHANGED << resultShape, site, limits, detectCall, priceCall, scrapeCall, scheduler, procVars,
                  storeVars, run, lastStop, lastReset, ownerNotes, budgetVars >>

\* The server with the real driver, one of the inventories, settings and
\* sites of SerialScenarios; crawl.trigger is called only when no crawl is
\* in progress, nobody calls crawl.stop or crawl.resetStuck, and the settings
\* may be changed at any time.
SerialInit ==
  /\ resultShape = "tuple"
  /\ \E sc \in SerialScenarios :
       /\ settings = sc.settings
       /\ site = sc.site
       /\ products = sc.inventory
  /\ limits = [ jobs |-> MaxSerialJobs, served |-> MaxSerialServed,
                disturbances |-> MaxSerialDisturbances,
                deactivated |-> MaxDeactivated,
                settingsChanges |-> MaxSettingsChanges, overlap |-> FALSE,
                refresh |-> FALSE, schedulerCalls |-> 0 ]
  /\ Started

SerialNext ==
  \/ productUpdate
  \/ settingsUpdate
  \/ \E r \in Runs : crawlTrigger(r)
  \/ \E r \in Runs : CreateJob(r)
  \/ \E r \in Runs : LoadExisting(r)
  \/ \E r \in Runs : Launch(r)
  \/ \E r \in Runs : FetchPage(r)
  \/ \E r \in Runs : ReconcileOne(r)
  \/ \E r \in Runs : ReconcileThrows(r)
  \/ \E r \in Runs : SubDelay(r)
  \/ \E r \in Runs : Phase2(r)
  \/ \E r \in Runs : FinallyDone(r)
  \/ \E r \in Runs : Finalize(r)
  \/ \E r \in Runs : NotifyOwner(r)

SerialSpec == SerialInit /\ [][SerialNext]_vars

\* ------------------------------------------------------------------- claims
\* vocabulary of the claims: the invocation in slot r has returned; the
\* crawl_jobs row it inserted; no invocation is in progress
Returned(r) == run[r].pc = "done"
RowOf(r) == jobs[Val(run[r].row)]
Quiet == \A r \in Runs : ~Live(r)

\* C1: a job for which stopCrawl answered stopped:true during its discovery
\* phase, and which finalizes the record it created, ends with status
\* `stopped`, and its crawledProducts is the count reached when a loop check
\* observed the flag.
C1_StoppedJobEndsStopped ==
  \A r \in Runs :
    ( /\ Returned(r)
      /\ run[r].stopAcked
      /\ run[r].jobId = Val(run[r].row) )
    => /\ RowOf(r).status = "stopped"
       /\ run[r].flagSeen => RowOf(r).crawledProducts = run[r].countAtFlag

\* C2: single-flight.  At most one invocation has a record in status `running`
\* while it is in progress, and at most one is in its discovery phase.
C2_SingleFlight ==
  /\ Cardinality({ r \in Runs : /\ Live(r)
                                /\ ~IsNull(run[r].row)
                                /\ RowOf(r).status = "running" }) <= 1
  /\ Cardinality({ r \in Runs : run[r].pc \in DiscoveryPcs }) <= 1

\* C3: an invocation that created a job record has, when it returns, issued
\* exactly one final update, and the record holds a terminal status, the final
\* counts and a completion timestamp.
C3_FinalizedExactlyOnce ==
  \A r \in Runs :
    Returned(r) =>
      /\ run[r].finalWrites = 1
      /\ RowOf(r).status \in {"completed", "failed", "stopped"}
      /\ RowOf(r).crawledProducts = run[r].bodyCrawled
      /\ RowOf(r).failedProducts = run[r].bodyFailed
      /\ ~IsNull(RowOf(r).completedAt)

\* C4: for a returned invocation during which stopCrawl was not called, the
\* record holds `failed` exactly when failedCount > 0 and crawledCount = 0,
\* `completed` otherwise, and the counts of the end of the job body.
C4_StatusFromCounts ==
  \A r \in Runs :
    (Returned(r) /\ ~run[r].stopDuring) =>
      /\ RowOf(r).status = IF run[r].bodyFailed > 0 /\ run[r].bodyCrawled = 0
                           THEN "failed" ELSE "completed"
      /\ RowOf(r).crawledProducts = run[r].bodyCrawled
      /\ RowOf(r).failedProducts = run[r].bodyFailed

C6_ResetStuckJobs ==
  [][ resets' = resets + 1 =>
        /\ \A i \in 1..Len(jobs) :
             IF jobs[i].status = "running"
             THEN jobs'[i].status = "stopped" /\ ~IsNull(jobs'[i].completedAt)
             ELSE jobs'[i] = jobs[i]
        /\ lastReset'.returned =
             Some(Cardinality({ i \in 1..Len(jobs) : jobs[i].status = "running" })) ]_vars

\* after invocations that never overlapped have all returned: isCrawlRunning()
\* is false, stopCrawl() would answer stopped:false, no browser is open
LoneRunsLeaveNothing ==
  (Quiet /\ \A r \in Runs : ~run[r].overlapped) =>
    /\ IsNull(currentJobId)
    /\ ~StopRequest(currentJobId, crawlStopped).result.stopped
    /\ IsNull(browserInstance)
    /\ \A b \in 1..Len(browsers) : browsers[b] = "closed"

\* C7: the step in which an invocation leaves its try block closes the shared
\* browser; the step in which it leaves the finally block leaves the handle
\* null, the active job id null and the stop flag false; and after lone
\* invocations have returned nothing is left: no active job, no stop to
\* acknowledge, no open browser.
C7_CleanupOnLeavingBody ==
  [][ /\ \A r \in Runs :
           /\ (run[r].pc \in BodyPcs \ {"closing"} /\ run'[r].pc \in {"closing", "final"})
              => \A b \in 1..Len(browsers) :
                   browserInstance = Some(b) => browsers'[b] = "closed"
           /\ (run[r].pc \in BodyPcs /\ run'[r].pc = "final")
              => /\ IsNull(browserInstance')
                 /\ IsNull(currentJobId')
                 /\ ~crawlStopped'
      /\ LoneRunsLeaveNothing' ]_vars

\* C7, its case: a lone invocation launched a browser, was stopped at a loop
\* check, and has returned
C7_Witness ==
  /\ Quiet
  /\ Len(browsers) >= 1
  /\ \E r \in Runs : Returned(r) /\ ~run[r].overlapped /\ run[r].flagSeen

\* C8: once the stop flag is set no page fetch is started: no invocation starts
\* the fetch of a page while _crawlStopped is true.
C8_NoFetchOnceStopped ==
  \A r \in Runs : run[r].fetchAfterFlag = 0

\* C9: stopCrawl sets the flag and returns {stopped: true, jobId: the
\* registered id} exactly when a job is registered; otherwise it returns
\* {stopped: false, jobId: null} and changes nothing.  A loop check of an
\* invocation finds the flag set only if stopCrawl was called after that
\* invocation registered its job.
C9_StopCrawl ==
  [][ /\ stops' = stops + 1 =>
           IF ~IsNull(currentJobId)
           THEN /\ crawlStopped'
                /\ lastStop' = [stopped |-> TRUE, jobId |-> currentJobId]
           ELSE /\ lastStop' = [stopped |-> FALSE, jobId |-> Null]
                /\ UNCHANGED << crawlStopped, currentJobId, browserInstance,
                                browsers, jobs, products, priceHistory,
                                notifications >>
      /\ \A r \in Runs : run'[r].flagSeen => run'[r].stopDuring ]_vars

\* C9, its case: stopCrawl answered stopped:true during a first job, and a
\* second job, started after the first had returned, ran all its loops
C9_Witness ==
  /\ started = 2
  /\ Quiet
  /\ lastStop.stopped
  /\ run["r2"].pc = "idle"
  /\ Returned("r1") /\ ~run["r1"].stopDuring /\ ~run["r1"].flagSeen
  /\ run["r1"].crawledCount > 0

\* C10: every product the reconciler created or updated is stored with
\* isOnSale = (originalPrice is non-null and originalPrice > currentPrice).
C10_OnSaleInvariant ==
  \A i \in 1..Len(products) :
    ~IsNull(products[i].lastCrawledAt) =>
      products[i].isOnSale =
        ( /\ ~IsNull(products[i].originalPrice)
          /\ Val(products[i].originalPrice) > Val(products[i].currentPrice) )

\* vocabulary of the reconciliation claims: run r is at a record of
\* `discovered`; that record; a step of run r at it; the rows of `products`
\* stored under a URL, letter case apart; the latest price-history entry of a
\* product; the entry carries the values of a record
AtRecord(r) == run[r].pc = "reconcile"
Record(r) == Head(run[r].discovered)
ReconcileStep(r) == AtRecord(r) /\ run'[r] # run[r]
StoredUnder(url) ==
  { i \in 1..Len(products) : ToLowerCase(products[i].url) = ToLowerCase(url) }
EntriesOf(id) == { k \in 1..Len(priceHistory) : priceHistory[k].productId = id }
LatestEntry(id) == priceHistory[CHOOSE k \in EntriesOf(id) : \A j \in EntriesOf(id) : j <= k]
SameValues(entry, product) ==
  /\ entry.price = product.currentPrice
  /\ entry.originalPrice = product.originalPrice
  /\ entry.isOnSale = product.isOnSale

\* the record run r is at was the last one reconciled for an active product
\* stored under its URL
ReconciledBefore(r) ==
  \E i \in StoredUnder(Record(r).url) :
    /\ products[i].isActive
    /\ EntriesOf(i) # {}
    /\ SameValues(LatestEntry(i), Record(r))

\* C11: reconciling a record whose price, original price and sale flag are
\* those of the latest reconciliation of the existing product creates no
\* notification, be that reconciliation one of an earlier job or one of the
\* same job (the URL discovered on two pages).
C11_RepeatedRecordIsSilent ==
  [][ \A r \in Runs :
        ReconcileStep(r) /\ ReconciledBefore(r) => notifications' = notifications ]_vars

\* C11, the half that holds: the same, when the snapshot of the run still
\* shows the product as it is stored (the earlier reconciliation was one of
\* an earlier job)
C11_RepeatedInLaterJobIsSilent ==
  [][ \A r \in Runs :
        ( /\ ReconcileStep(r) /\ ReconciledBefore(r)
          /\ \A k \in 1..Len(run[r].existingProducts) :
               run[r].existingProducts[k].row = products[run[r].existingProducts[k].id] )
        => notifications' = notifications ]_vars

\* C11_RepeatedInLaterJobIsSilent, its case: a record is about to be
\* reconciled a second time, in a job that started after the first time
C11_LaterJobCase ==
  \E r \in Runs :
    /\ AtRecord(r) /\ ReconciledBefore(r)
    /\ run[r].crawledCount = 0
    /\ \A k \in 1..Len(run[r].existingProducts) :
         run[r].existingProducts[k].row = products[run[r].existingProducts[k].id]

\* more vocabulary: the row of the snapshot that existingProducts.find
\* returns for the record run r is at; the snapshot shows that product as it is
\* stored; the step updates an existing product (the record is counted, no
\* product is created), or creates one; the notifications a step creates
Found(r) ==
  run[r].existingProducts[
    CHOOSE i \in Matching(run[r], ToLowerCase(Record(r).url)) :
      \A k \in Matching(run[r], ToLowerCase(Record(r).url)) : i <= k ]
Fresh(r) == Found(r).row = products[Found(r).id]
UpdateStep(r) ==
  /\ ReconcileStep(r)
  /\ run'[r].crawledCount = run[r].crawledCount + 1
  /\ run'[r].newProductsCount = run[r].newProductsCount
CreateStep(r) ==
  /\ ReconcileStep(r)
  /\ run'[r].newProductsCount = run[r].newProductsCount + 1
Created == SubSeq(notifications', Len(notifications) + 1, Len(notifications'))
CreatedOfType(type) == { k \in 1..Len(Created) : Created[k].type = type }

\* an update of a product whose stored price is known and differs from the
\* record's by more than 0.01 (prices in cents)
PriceMoved(r) ==
  /\ UpdateStep(r) /\ Fresh(r)
  /\ Truthy(Found(r).row.currentPrice)
  /\ \/ Val(Found(r).row.currentPrice) - Record(r).currentPrice > 1
     \/ Record(r).currentPrice - Val(Found(r).row.currentPrice) > 1

\* C12: when an existing product with a known price is updated with a price
\* that differs by more than 0.01, a price_drop notification is created if
\* and only if the new price is lower and the decrease, in percent of the old
\* price, is at least the price-drop threshold (thresholds in hundredths of a
\* percentage point): a drop of exactly the threshold fires.
C12_PriceDropRule ==
  [][ \A r \in Runs :
        PriceMoved(r) =>
          LET old == Val(Found(r).row.currentPrice)
              new == Record(r).currentPrice
          IN (CreatedOfType("price_drop") # {})
               <=> (new < old /\ (old - new) * 10000 >= run[r].priceDrop * old) ]_vars

\* C12, what the detector does keep: no price_drop without a lower price and
\* a decrease of at least the threshold
C12_NoDropBelowThreshold ==
  [][ \A r \in Runs :
        PriceMoved(r) /\ CreatedOfType("price_drop") # {} =>
          LET old == Val(Found(r).row.currentPrice)
              new == Record(r).currentPrice
          IN new < old /\ (old - new) * 10000 >= run[r].priceDrop * old ]_vars

\* C13: under the same conditions a price_increase notification is created if
\* and only if the new price is higher and the increase, in percent of the old
\* price, is at least the price-increase threshold; the notification records
\* the two compared prices and the increase rounded to two decimals.
C13_PriceIncreaseRule ==
  [][ \A r \in Runs :
        PriceMoved(r) =>
          LET old == Val(Found(r).row.currentPrice)
              new == Record(r).currentPrice
          IN /\ (CreatedOfType("price_increase") # {})
                  <=> (new > old /\ (new - old) * 10000 >= run[r].priceIncrease * old)
             /\ \A k \in CreatedOfType("price_increase") :
                  /\ Created[k].oldPrice = old
                  /\ Created[k].newPrice = new
                  /\ Created[k].changePercent
                       = (2 * (new - old) * 10000 + old) \div (2 * old) ]_vars

\* C13, what the detector does keep: a price_increase only for a higher
\* price and an increase of at least the threshold, with those fields
C13_NoIncreaseBelowThreshold ==
  [][ \A r \in Runs :
        PriceMoved(r) =>
          LET old == Val(Found(r).row.currentPrice)
              new == Record(r).currentPrice
          IN \A k \in CreatedOfType("price_increase") :
               /\ new > old /\ (new - old) * 10000 >= run[r].priceIncrease * old
               /\ Created[k].oldPrice = old
               /\ Created[k].newPrice = new
               /\ Created[k].changePercent
                    = (2 * (new - old) * 10000 + old) \div (2 * old) ]_vars

\* C12 and C13, cases at the default thresholds of 5 and 10 percent: a
\* product at 100.00 found at 95.00 (-5.00 percent) and at 110.00 (+10.00
\* percent) is notified, and found at 95.01 or at 109.99 it is not
NotifiedAt(type, old, new, percent) ==
  \E k \in 1..Len(notifications) :
    /\ notifications[k].type = type
    /\ notifications[k].oldPrice = old /\ notifications[k].newPrice = new
    /\ notifications[k].changePercent = percent
StoredSilentlyAt(price) ==
  /\ notifications = <<>>
  /\ \E i \in 1..Len(products) :
       products[i].currentPrice = Some(price) /\ ~IsNull(products[i].lastCrawledAt)

C12_DropOfThresholdCase == NotifiedAt("price_drop", 10000, 9500, -500)
C12_DropBelowThresholdCase == StoredSilentlyAt(9501)
C13_IncreaseOfThresholdCase == NotifiedAt("price_increase", 10000, 11000, 1000)
C13_IncreaseBelowThresholdCase == StoredSilentlyAt(10999)

\* C14: when an existing product is updated, the detector creates a new_sale
\* notification if and only if the product it is given is not on sale, the
\* record is on sale and notifyOnSale is true, and a sale_ended notification
\* if and only if that product is on sale and the record is not, whatever
\* notifyOnSale is.
C14_SaleTransitionRule ==
  [][ \A r \in Runs :
        UpdateStep(r) =>
          /\ (CreatedOfType("new_sale") # {})
               <=> (~Found(r).row.isOnSale /\ Record(r).isOnSale /\ run[r].notifyOnSale)
          /\ (CreatedOfType("sale_ended") # {})
               <=> (Found(r).row.isOnSale /\ ~Record(r).isOnSale) ]_vars

\* C14, its case: with notify_on_sale switched off a product went on sale
\* without a new_sale notification, and its sale then ended with a sale_ended
\* notification
C14_Witness ==
  /\ settings.notify_on_sale = Some("false")
  /\ \E k \in 1..Len(notifications) : notifications[k].type = "sale_ended"
  /\ \A k \in 1..Len(notifications) : notifications[k].type # "new_sale"

\* C14, another case: with notify_on_sale left at its default a product that
\* went on sale has its new_sale notification
C14_NewSaleCase ==
  /\ settings.notify_on_sale = Null
  /\ \E k \in 1..Len(notifications) : notifications[k].type = "new_sale"

\* C15: the sale check and the price check of an update do not suppress each
\* other: a sale transition is notified whatever the price does, and a price
\* that moved by more than 0.01 and by more than the threshold is notified
\* whatever the sale status does.  For a product stored at 29.99, not on
\* sale, found at 19.99 with original price 29.99, with notifyOnSale true and
\* a drop threshold of at most 33.34, the notifications created are exactly a
\* new_sale and a price_drop, and the product is stored as on sale with
\* discountPercent 33.34.
C15_ChecksAreIndependent ==
  [][ \A r \in Runs :
        UpdateStep(r) =>
          LET old == Found(r).row.currentPrice
              new == Record(r).currentPrice
              was == Found(r).row.isOnSale
              moved == Truthy(old) /\ (Val(old) - new > 1 \/ new - Val(old) > 1)
          IN /\ ~was /\ Record(r).isOnSale /\ run[r].notifyOnSale
                  => CreatedOfType("new_sale") # {}
             /\ was /\ ~Record(r).isOnSale => CreatedOfType("sale_ended") # {}
             /\ moved /\ (Val(old) - new) * 10000 > run[r].priceDrop * Val(old)
                  => CreatedOfType("price_drop") # {}
             /\ moved /\ (new - Val(old)) * 10000 > run[r].priceIncrease * Val(old)
                  => CreatedOfType("price_increase") # {}
             /\ ( /\ Fresh(r) /\ old = Some(2999) /\ ~was
                  /\ new = 1999 /\ Record(r).originalPrice = Some(2999)
                  /\ run[r].notifyOnSale /\ run[r].priceDrop <= 3334 )
                  => /\ Len(Created) = 2
                     /\ Created[1].type = "new_sale" /\ Created[2].type = "price_drop"
                     /\ products'[Found(r).id].isOnSale
                     /\ products'[Found(r).id].discountPercent = Some(3334) ]_vars

\* C15, its case: the product of the scenario after that crawl, with its two
\* notifications
C15_Witness ==
  \E i \in 1..Len(products) :
    /\ products[i].currentPrice = Some(1999) /\ products[i].originalPrice = Some(2999)
    /\ products[i].isOnSale /\ products[i].discountPercent = Some(3334)
    /\ Len(notifications) = 2
    /\ notifications[1].type = "new_sale" /\ notifications[1].productId = i
    /\ notifications[2].type = "price_drop" /\ notifications[2].productId = i
    /\ notifications[2].oldPrice = 2999 /\ notifications[2].newPrice = 1999

\* more vocabulary: a step of run r at a record whose URL the snapshot knows;
\* the product of that record as it is stored
KnownStep(r) ==
  /\ ReconcileStep(r)
  /\ ~Incomplete(Record(r))
  /\ Matching(run[r], ToLowerCase(Record(r).url)) # {}
StoredFound(r) == [id |-> Found(r).id, row |-> products[Found(r).id]]

\* the effects of a step at a known record are a prefix of: the detector's
\* notifications, the product update, the price-history entry, crawledCount + 1
StepsInOrder(r) ==
  LET detected == notifications' = notifications \o
                    detectAndNotifyPriceChange(Found(r), Record(r), Thresholds(run[r]))
      updated == products' = [products EXCEPT ![Found(r).id] =
                                UpdateProductRow(@, Record(r), Found(r).row, clock)]
      appended == priceHistory' =
                    Append(priceHistory, HistoryEntry(Found(r).id, Record(r), clock))
      counted == run'[r].crawledCount = run[r].crawledCount + 1
  IN /\ counted <=> appended
     /\ ~appended => priceHistory' = priceHistory
     /\ appended => updated
     /\ ~updated => products' = products
     /\ updated /\ products' # products => detected
     /\ ~detected => notifications' = notifications

\* C16: for a record whose URL is known the steps happen in the order
\* detection, product update, price-history entry, crawledCount + 1, and the
\* detector compares the record against the product as it is stored just
\* before this update.
C16_DetectionOnStoredValuesFirst ==
  [][ \A r \in Runs :
        KnownStep(r) =>
          /\ StepsInOrder(r)
          /\ notifications' # notifications =>
               Created = detectAndNotifyPriceChange(StoredFound(r), Record(r),
                                                    Thresholds(run[r])) ]_vars

\* C16, the half that holds: the order of the steps
C16_StepsInOrder ==
  [][ \A r \in Runs : KnownStep(r) => StepsInOrder(r) ]_vars

\* C16_StepsInOrder, its cases: a store call failed after the detector had
\* written (the job counts a failure and has notifications, but no
\* price-history entry), and an update went through
C16_InterruptedCase ==
  \E r \in Runs :
    /\ run[r].failedCount > 0 /\ run[r].crawledCount = 0
    /\ notifications # <<>> /\ priceHistory = <<>>
C16_CompletedCase ==
  \E r \in Runs : run[r].crawledCount > 0 /\ notifications # <<>> /\ priceHistory # <<>>

\* what an update leaves alone: the other products, and the name, brand, sku,
\* category, url and isActive of the updated one
UpdateFrame(id) ==
  /\ Len(products') = Len(products)
  /\ \A i \in 1..Len(products) : i # id => products'[i] = products[i]
  /\ products'[id].name = products[id].name
  /\ products'[id].brand = products[id].brand
  /\ products'[id].sku = products[id].sku
  /\ products'[id].category = products[id].category
  /\ products'[id].url = products[id].url
  /\ products'[id].isActive = products[id].isActive

\* C17: after an existing product is updated from a record, its currentPrice,
\* originalPrice, isOnSale and discountPercent are the record's (none stored
\* where the record has none), its imageUrl is the record's if it has one and
\* the image stored before otherwise, and the rest of the row is unchanged.
C17_UpdateWritesTheRecord ==
  [][ \A r \in Runs :
        UpdateStep(r) =>
          LET id == Found(r).id
          IN /\ products'[id].currentPrice = Some(Record(r).currentPrice)
             /\ products'[id].originalPrice = Record(r).originalPrice
             /\ products'[id].isOnSale = Record(r).isOnSale
             /\ products'[id].discountPercent = Record(r).discountPercent
             /\ products'[id].imageUrl = IF ~IsNull(Record(r).imageUrl)
                                         THEN Record(r).imageUrl
                                         ELSE products[id].imageUrl
             /\ UpdateFrame(id) ]_vars

\* C17, what the update does keep: the price and the sale flag are the
\* record's, an original price, discount or image the record has is stored,
\* and the rest of the row is unchanged
C17_UpdateWritesWhatIsPresent ==
  [][ \A r \in Runs :
        UpdateStep(r) =>
          LET id == Found(r).id
          IN /\ products'[id].currentPrice = Some(Record(r).currentPrice)
             /\ products'[id].isOnSale = Record(r).isOnSale
             /\ ~IsNull(Record(r).originalPrice)
                  => products'[id].originalPrice = Record(r).originalPrice
             /\ ~IsNull(Record(r).discountPercent)
                  => products'[id].discountPercent = Record(r).discountPercent
             /\ ~IsNull(Record(r).imageUrl) => products'[id].imageUrl = Record(r).imageUrl
             /\ UpdateFrame(id) ]_vars

\* C17, two cases of what goes wrong: a product updated from a record
\* without original price still has one stored; an image stored by an update
\* was replaced by the image of the start of the job when the next record
\* had none
C17_StaleOriginalPriceCase ==
  \E i \in 1..Len(products), k \in 1..Len(priceHistory) :
    /\ k \in EntriesOf(i) /\ \A j \in EntriesOf(i) : j <= k
    /\ IsNull(priceHistory[k].originalPrice)
    /\ ~IsNull(products[i].originalPrice)
C17_StaleImageCase ==
  \E r \in Runs, i \in 1..Len(products) :
    /\ run[r].crawledCount = 2
    /\ products[i].imageUrl = Some("a.jpg")
    /\ \E k \in EntriesOf(i) : ~IsNull(priceHistory[k].originalPrice)
    /\ IsNull(LatestEntry(i).originalPrice)
    /\ started = 1

\* more vocabulary: the step counts the record as crawled; price_history
\* keeps its entries; the step appends the one entry of the record for
\* product id
CountedStep(r) == ReconcileStep(r) /\ run'[r].crawledCount = run[r].crawledCount + 1
AppendOnly ==
  /\ Len(priceHistory') >= Len(priceHistory)
  /\ SubSeq(priceHistory', 1, Len(priceHistory)) = priceHistory
AppendsEntryOf(r, id) ==
  /\ Len(priceHistory') = Len(priceHistory) + 1
  /\ LET entry == priceHistory'[Len(priceHistory')]
     IN /\ entry.productId = id
        /\ entry.price = Record(r).currentPrice
        /\ entry.originalPrice = Record(r).originalPrice
        /\ entry.isOnSale = Record(r).isOnSale
        /\ entry.discountPercent = Record(r).discountPercent

\* C18: price history is append-only, and every step that counts a product as
\* crawled, be it an update of an existing product or the creation of a new
\* one, appends exactly one entry for that product with the price, original
\* price, sale flag and discount of the record; no other step appends.
C18_OneEntryPerCrawl ==
  [][ /\ AppendOnly
      /\ \A r \in Runs :
           /\ UpdateStep(r) => AppendsEntryOf(r, Found(r).id)
           /\ CreateStep(r) => AppendsEntryOf(r, Len(products'))
      /\ (\A r \in Runs : ~CountedStep(r)) => priceHistory' = priceHistory ]_vars

\* C18, what the pipeline does keep: the same for updates only
C18_OneEntryPerUpdate ==
  [][ /\ AppendOnly
      /\ \A r \in Runs : UpdateStep(r) => AppendsEntryOf(r, Found(r).id)
      /\ (\A r \in Runs : ~UpdateStep(r)) => priceHistory' = priceHistory ]_vars

\* C18, cases: a job counted the product it created and there is no
\* price-history entry; a job counted two updates and there are two entries
C18_CreatedWithoutEntryCase ==
  \E r \in Runs :
    /\ run[r].crawledCount = 1 /\ run[r].newProductsCount = 1
    /\ priceHistory = <<>>
C18_TwoUpdatesCase ==
  \E r \in Runs :
    /\ run[r].crawledCount = 2 /\ run[r].newProductsCount = 0
    /\ Len(priceHistory) = 2

\* no two rows of products have the same URL, letter case apart
NoSharedUrl(rows) ==
  \A i, j \in 1..Len(rows) :
    ToLowerCase(rows[i].url) = ToLowerCase(rows[j].url) => i = j

\* C19: a job never creates a product whose lower-cased URL is the lower-cased
\* URL of a product that exists already, created earlier in the job or not;
\* an inventory without two products of the same normalized URL stays so.
C19_NoDuplicateUrl ==
  [][ /\ \A r \in Runs : CreateStep(r) => StoredUnder(Record(r).url) = {}
      /\ NoSharedUrl(products) => NoSharedUrl(products') ]_vars

\* C19, what the pipeline does keep when jobs follow one another: it never
\* creates a product under the normalized URL of an active product
C19_NoDuplicateOfActive ==
  [][ \A r \in Runs :
        CreateStep(r) => \A i \in StoredUnder(Record(r).url) : ~products[i].isActive ]_vars

\* C19, cases: the link /BUY/1/A (the only one with image a2.jpg) updated the
\* product stored as /buy/1/a and nothing was created; a deactivated product
\* has a second, active row under its URL
C19_LetterCaseCase ==
  /\ Len(products) = 1
  /\ products[1].url = "/buy/1/a" /\ products[1].imageUrl = Some("a2.jpg")
C19_RecreatedCase ==
  \E i, j \in 1..Len(products) :
    /\ i # j /\ ToLowerCase(products[i].url) = ToLowerCase(products[j].url)
    /\ ~products[i].isActive /\ products[j].isActive

\* more vocabulary: a step of run r at a record that ends without error; the
\* three outcomes of such a step; the record's URL is known to the job (it
\* is the URL of a product that was active when the job read the inventory,
\* or of one the job created)
CompletedStep(r) == ReconcileStep(r) /\ run'[r].failedCount = run[r].failedCount
Skipped(r) ==
  /\ UNCHANGED << products, priceHistory, notifications >>
  /\ run'[r].crawledCount = run[r].crawledCount
  /\ run'[r].newProductsCount = run[r].newProductsCount
CreatedOne(r) ==
  /\ Len(products') = Len(products) + 1
  /\ SubSeq(products', 1, Len(products)) = products
  /\ products'[Len(products')].url = Record(r).url
  /\ products'[Len(products')].isActive
  /\ products'[Len(products')].category = TargetSubs(run[r].category)[run[r].subIdx].cat
  /\ run'[r].newProductsCount = run[r].newProductsCount + 1
  /\ run'[r].crawledCount = run[r].crawledCount + 1
UpdatedOne(r) ==
  /\ Len(products') = Len(products)
  /\ run'[r].newProductsCount = run[r].newProductsCount
  /\ run'[r].crawledCount = run[r].crawledCount + 1
KnownUrl(r) == ToLowerCase(Record(r).url) \in run[r].existingUrls

\* links without a name or without a price become no record, and fetching a
\* page writes nothing to the store and changes no counter
LinksAreScreened(r) ==
  /\ \A k \in 1..Len(run'[r].discovered) : ~Incomplete(run'[r].discovered[k])
  /\ run[r].pc = "page" /\ run'[r] # run[r] =>
       /\ UNCHANGED << products, priceHistory, notifications >>
       /\ run'[r].crawledCount = run[r].crawledCount
       /\ run'[r].newProductsCount = run[r].newProductsCount

\* C20: every discovered record has exactly one outcome.  One without URL,
\* name or price is skipped: no store write, no counter change.  Any other is
\* created if its URL is not known to the job (one new active product in the
\* category being crawled, newProductsCount and crawledCount + 1), and
\* updated otherwise (crawledCount + 1), also when the product was created
\* earlier in the same job.
C20_OneOutcomePerRecord ==
  [][ \A r \in Runs :
        /\ LinksAreScreened(r)
        /\ CompletedStep(r) =>
             IF Incomplete(Record(r)) THEN Skipped(r)
             ELSE IF KnownUrl(r) THEN UpdatedOne(r)
             ELSE CreatedOne(r) ]_vars

\* C20, what the pipeline does keep: the same, but for a record whose URL is
\* known and that existingProducts.find does not find
C20_OneOutcomeWhenFound ==
  [][ \A r \in Runs :
        /\ LinksAreScreened(r)
        /\ CompletedStep(r) =>
             IF Incomplete(Record(r)) THEN Skipped(r)
             ELSE IF ~KnownUrl(r) THEN CreatedOne(r)
             ELSE IF Matching(run[r], ToLowerCase(Record(r).url)) # {} THEN UpdatedOne(r)
             ELSE Skipped(r) ]_vars

\* C20, cases: a job created product B from the first page, found B again on
\* the second page and is about to reconcile that record; a page was served with a link that has no name or no price, and nothing
\* came of it; a job counted an update and a creation
C20_SecondOccurrenceCase ==
  \E r \in Runs :
    /\ AtRecord(r) /\ Record(r).url = "/buy/2/b"
    /\ run[r].newProductsCount = 1 /\ run[r].crawledCount = 1
    /\ \E i \in StoredUnder("/buy/2/b") : products[i].isActive
C20_ScreenedLinkCase ==
  \E r \in Runs :
    /\ run[r].pc = "subDelay" /\ served = 1 /\ faults = 0 /\ started = 1
    /\ run[r].crawledCount = 0 /\ run[r].failedCount = 0
C20_UpdatedAndCreatedCase ==
  \E r \in Runs :
    /\ run[r].crawledCount = 2 /\ run[r].newProductsCount = 1
    /\ Len(priceHistory) = 1

\* ---------------------------------------------- errors inside a sub-category
\* A step of the invocation in slot r in which an error is raised while a
\* sub-category is discovered or reconciled: a browser or store call rejects,
\* or the browser was closed under the invocation
ErrorStep(r) ==
  /\ run[r].pc \in {"launch", "page", "reconcile"}
  /\ run'[r] # run[r]
  /\ \/ faults' = faults + 1
     \/ run[r].pc = "page" /\ browsers[Val(run[r].browser)] # "open"

\* the job goes on after the step: with the next sub-category, or, after the
\* last one or once a stop was requested, with phase 2
GoesOnAfter(r) ==
  /\ run'[r].subIdx = run[r].subIdx + 1
  /\ IF run'[r].subIdx > Len(TargetSubs(run[r].category)) \/ crawlStopped
     THEN run'[r].pc = "phase2"
     ELSE run'[r].pc \in {"launch", "page"}

\* the records gathered from the pages fetched so far go to the loop over
\* `discovered`
GatheredKept(r) ==
  run[r].discovered # <<>> =>
    run'[r].pc = "reconcile" /\ run'[r].discovered = run[r].discovered

\* C21: an error raised while one sub-category is discovered or reconciled is
\* caught and counted in failedCount, the job goes on with the sub-categories
\* that remain (unless a stop was requested), and the products gathered from
\* the earlier pages of the failing sub-category are not lost.
C21_SubCategoryErrorIsContained ==
  [][ \A r \in Runs :
        ErrorStep(r) =>
          /\ run'[r].failedCount = run[r].failedCount + 1
          /\ IF run[r].pc = "page" /\ run[r].discovered # <<>>
             THEN GatheredKept(r)
             ELSE GoesOnAfter(r) ]_vars

\* what does hold: an error that reaches the catch of the sub-category is
\* counted and the job goes on
ReachesCatch(r) == ErrorStep(r) /\ run'[r].subIdx # run[r].subIdx

C21_CaughtErrorIsCounted ==
  [][ \A r \in Runs :
        ReachesCatch(r) =>
          run'[r].failedCount = run[r].failedCount + 1 /\ GoesOnAfter(r) ]_vars

\* the last part alone: context.newPage() or pageObj.goto() fails after a page
\* has yielded records
C21_GatheredProductsAreKept ==
  [][ \A r \in Runs :
        ErrorStep(r) /\ run[r].pc = "page" /\ run[r].discovered # <<>> =>
          GatheredKept(r) ]_vars

\* ------------------------------------------------------- page fetch errors
\* a step of the invocation in slot r in which pageObj.goto() rejects
GotoFails(r) == ~run[r].fetchFailed /\ run'[r].fetchFailed

\* the invocation in slot r has returned, every page fetch of it failed and
\* it crawled no product
EveryFetchFailed(r) ==
  /\ Returned(r)
  /\ run[r].fetchFailed /\ ~run[r].fetchServed
  /\ run[r].crawledCount = 0

\* the status of the final updateCrawlJob of a returned invocation
StatusWritten(r) ==
  FinalStatus(run[r].wasStopped, run[r].failedCount, run[r].crawledCount)

\* C22: every navigation error on a category page is counted in failedCount,
\* and a job in which every page fetch failed and no product was crawled is
\* finalized with status `failed`.
C22_FetchErrorsAreCounted ==
  /\ [][ \A r \in Runs :
           GotoFails(r) => run'[r].failedCount = run[r].failedCount + 1 ]_vars
  /\ [](\A r \in Runs : EveryFetchFailed(r) => StatusWritten(r) = "failed")

\* the second part alone
C22_FailedWhenEveryFetchFailed ==
  \A r \in Runs : EveryFetchFailed(r) => StatusWritten(r) = "failed"

\* the page of the only sub-category could not be fetched and the record of
\* the job says `completed` with no failure
C22_CompletedCase ==
  \E r \in Runs :
    /\ EveryFetchFailed(r)
    /\ run[r].jobId = Val(run[r].row)
    /\ RowOf(r).status = "completed" /\ RowOf(r).failedProducts = 0

\* ------------------------------------------------------- persistence errors
\* a step of the invocation in slot r in which a store call of the
\* reconciliation of one record rejects
PersistenceError(r) == ErrorStep(r) /\ AtRecord(r)

\* the loop over `discovered` goes on with the records after the current one
RestIsReconciled(r) ==
  Tail(run[r].discovered) # <<>> =>
    run'[r].pc = "reconcile" /\ run'[r].discovered = Tail(run[r].discovered)

\* the registration of the active job and the stop flag are as they were and
\* the invocation is still inside its try block
ActiveJobKept(r) ==
  /\ currentJobId' = currentJobId /\ crawlStopped' = crawlStopped
  /\ run'[r].pc \in BodyPcs

\* C23: a persistence error while one product is created or updated ends the
\* processing of that product only: failedCount is incremented, the other
\* products discovered in the sub-category are still reconciled, the active
\* job stays registered, and the invocation issues its final update.
C23_PersistenceErrorEndsOneProduct ==
  /\ [][ \A r \in Runs :
           PersistenceError(r) =>
             /\ run'[r].failedCount = run[r].failedCount + 1
             /\ RestIsReconciled(r)
             /\ ActiveJobKept(r) ]_vars
  /\ [](\A r \in Runs : Returned(r) /\ run[r].failedCount > 0 => run[r].finalWrites = 1)

\* what does hold: the error is counted, the active job stays registered and
\* the final update is issued
C23_CountedAndFinalized ==
  /\ [][ \A r \in Runs :
           PersistenceError(r) =>
             /\ run'[r].failedCount = run[r].failedCount + 1
             /\ ActiveJobKept(r) ]_vars
  /\ [](\A r \in Runs : Returned(r) /\ run[r].failedCount > 0 => run[r].finalWrites = 1)

\* a job gathered two records of one sub-category, the store rejected a call
\* for the first, and the job returned having crawled nothing
C23_SecondRecordDroppedCase ==
  \E r \in Runs :
    /\ Returned(r) /\ run[r].failedCount = 1 /\ run[r].crawledCount = 0
    /\ served = 2 /\ started = 1

\* ------------------------------------------------------- owner notification
\* the step of the invocation in slot r that calls notifyOwner, and the step
\* in which notifyOwner resolves or rejects
CallsOwner(r) == run[r].pc # "notify" /\ run'[r].pc = "notify"
OwnerSettles(r) == run[r].pc = "notify" /\ run'[r].pc # "notify"

\* notifyOwner calls made for the crawl_jobs row `row`
OwnerCalls(row) == { i \in 1..Len(ownerNotes) : ownerNotes[i] = row }

\* the invocation had activity
HadActivity(rec) == rec.crawledCount > 0 \/ rec.newProductsCount > 0

\* whatever notifyOwner does, the stored jobs stay as they are and runCrawl
\* returns normally
SinkIsHarmless(r) ==
  OwnerSettles(r) =>
    jobs' = jobs /\ run'[r].pc = "done" /\ ~run'[r].rejected

\* C24: notifyOwner is called at most once per run, only after the final
\* status has been persisted, and only for a run with activity that completed
\* successfully (not stopped, not failed); if it throws, the persisted status
\* and counts are unchanged and runCrawl returns normally.
C24_OwnerNotifiedOnSuccessOnly ==
  [][ \A r \in Runs :
        /\ CallsOwner(r) =>
             /\ HadActivity(run'[r])
             /\ jobs'[Val(run[r].row)].status = "completed"
             /\ jobs'[Val(run[r].row)].crawledProducts = run[r].crawledCount
             /\ ~run[r].flagSeen
        /\ SinkIsHarmless(r)
        /\ Cardinality(OwnerCalls(run[r].row)') <= 1 ]_vars

\* the part about stopped runs alone
C24_NoNoteForStoppedRun ==
  [][ \A r \in Runs : CallsOwner(r) => ~run[r].flagSeen ]_vars

\* what does hold: at most one call per run, made after the one final update
\* was issued, only for a run with activity for which the status `completed`
\* was written, and harmless when it throws
C24_OnceAfterFinalUpdate ==
  [][ \A r \in Runs :
        /\ CallsOwner(r) =>
             /\ HadActivity(run'[r])
             /\ run'[r].finalWrites = 1
             /\ StatusWritten(r) = "completed"
        /\ SinkIsHarmless(r)
        /\ Cardinality(OwnerCalls(run[r].row)') <= 1 ]_vars

\* the owner was told about a job whose loops had ended on the stop flag
C24_StoppedButNotifiedCase ==
  \E r \in Runs :
    Returned(r) /\ run[r].flagSeen /\ OwnerCalls(run[r].row) # {}

\* ------------------------------------------------------- detached crawls
\* the step in which runCrawl is called for slot r
CalledStep(r) ==
  /\ started' = started + 1
  /\ ~Live(r) /\ run'[r] # run[r]

\* C25: crawl.trigger returns its success acknowledgement without waiting for
\* the job, and no rejection of runCrawl (getCrawlerSettings, createCrawlJob or
\* the final updateCrawlJob failing) reaches the caller of the trigger or is
\* left unhandled.
C25_TriggerIsDetached ==
  /\ [][ \A r \in Runs :
           /\ (CalledStep(r) /\ run'[r].jobType = "manual") =>
                /\ run'[r].reply = Some([success |-> TRUE])
                /\ Live(r)' \/ run'[r].rejected
           /\ (run[r].jobType = "manual" /\ Live(r) /\ run'[r].jobType = "manual") =>
                run'[r].reply = Some([success |-> TRUE]) ]_vars
  /\ [](\A r \in Runs :
          run[r].rejected <=> run[r].surfaced # "none")
  /\ [](\A r \in Runs :
          run[r].rejected => run[r].surfaced = "logged")

\* C25, its case: crawl.trigger answered success, the settings were read, and
\* createCrawlJob rejected: runCrawl rejected without a job record and the
\* rejection was logged
C25_Witness ==
  \E r \in Runs :
    /\ run[r].pc = "rejected" /\ run[r].jobType = "manual"
    /\ run[r].priceDrop = DefaultPriceDrop
    /\ IsNull(run[r].row)
    /\ run[r].reply = Some([success |-> TRUE]) /\ run[r].surfaced = "logged"

\* ------------------------------------------------------------- settings
\* priceDrop, priceIncrease and notifyOnSale of an invocation
Consts(rec) ==
  [ priceDrop |-> rec.priceDrop, priceIncrease |-> rec.priceIncrease,
    notifyOnSale |-> rec.notifyOnSale ]

\* C26: the settings are read once, when the job starts: the price-drop
\* threshold is 5 when price_drop_threshold is absent, the price-increase
\* threshold 10 when price_increase_threshold is absent, notifyOnSale is true
\* unless notify_on_sale is "false" (thresholds in hundredths of a percentage
\* point); a change of the settings while the job is running does not change
\* the thresholds the job uses.
C26_SettingsReadOnceAtStart ==
  [][ \A r \in Runs :
        /\ (CalledStep(r) /\ Live(r)') =>
             /\ run'[r].priceDrop =
                  IF IsNull(settings.price_drop_threshold) THEN 500
                  ELSE Val(settings.price_drop_threshold)
             /\ run'[r].priceIncrease =
                  IF IsNull(settings.price_increase_threshold) THEN 1000
                  ELSE Val(settings.price_increase_threshold)
             /\ run'[r].notifyOnSale = (settings.notify_on_sale # Some("false"))
        /\ (Live(r) /\ Live(r)') => Consts(run'[r]) = Consts(run[r])
        /\ UpdateStep(r) =>
             notifications' = notifications \o
               detectAndNotifyPriceChange(Found(r), Record(r),
                 [ priceDrop |-> run[r].priceDrop,
                   priceIncrease |-> run[r].priceIncrease,
                   notifyOnSale |-> run[r].notifyOnSale ]) ]_vars

\* C26, its case: a job started with no settings stored; notify_on_sale was
\* set to "false" while it was running; the job then found the product on
\* sale and created the new_sale notification all the same
C26_Witness ==
  /\ started = 1
  /\ settings = Settings(Null, Null, Some("false"))
  /\ \E r \in Runs :
       /\ Live(r) /\ run[r].notifyOnSale /\ run[r].priceDrop = 500
       /\ run[r].priceIncrease = 1000
       /\ ~IsNull(run[r].row)
       /\ \E k \in 1..Len(priceHistory) :
            priceHistory[k].crawledAt > Val(RowOf(r).startedAt)
  /\ \E n \in 1..Len(notifications) : notifications[n].type = "new_sale"

\* ------------------------------------------------------- discount percent
\* pairs <<original, current>> of prices in cents the function is applied to:
\* those of the examples (100 and 75, 0 and 10, 29.99 and 19.99, 49.99 and
\* 39.99), originals of zero and below, a current price above the original,
\* and small discounts
DiscountInputs ==
  { <<10000, 7500>>, <<0, 1000>>, <<2999, 1999>>, <<4999, 3999>>,
    <<-500, 1000>>, <<0, 0>>, <<1999, 2999>>, <<4000, 4001>>, <<1999, 1999>>,
    <<800, 799>>, <<4000, 3999>>, <<20000, 19999>>, <<2000, 1999>>, <<100, 99>> }

DiscountValues == Tabulated(DiscountInputs, DiscountOfPair)

\* round((original - current) / original * 10000), of the exact quotient, ties
\* upwards, for prices in cents
ExactDiscount(original, current) ==
  (2 * (original - current) * 10000 + original) \div (2 * original)

\* the discount stored with an on-sale product is the function's value for
\* its stored prices
StoredDiscountIsComputed ==
  \A i \in 1..Len(products) :
    (products[i].isOnSale /\ ~IsNull(products[i].originalPrice)) =>
      products[i].discountPercent =
        Some(calculateDiscountPercent(Val(products[i].originalPrice),
                                      Val(products[i].currentPrice)))

\* C27: calculateDiscountPercent(original, current) is 0 whenever
\* original <= 0 and round((original - current) / original * 10000) / 100
\* otherwise (here in hundredths of a percentage point, for prices in cents),
\* and every stored on-sale product carries this value for its stored
\* original and current price.
C27_DiscountPercent ==
  /\ \A p \in DiscountInputs :
       Lookup(DiscountValues, p) =
         IF p[1] <= 0 THEN 0 ELSE ExactDiscount(p[1], p[2])
  /\ StoredDiscountIsComputed

\* the second part alone
C27_StoredDiscountMatches == StoredDiscountIsComputed

\* the first part alone
C27_RoundsTheExactQuotient ==
  \A p \in DiscountInputs :
    Lookup(DiscountValues, p) = IF p[1] <= 0 THEN 0 ELSE ExactDiscount(p[1], p[2])

\* what does hold of the function: 0 for an original of zero or below, the
\* values of the examples, and never more than one hundredth of a percentage
\* point away from the rounded exact quotient
C27_Examples ==
  /\ \A p \in DiscountInputs : p[1] <= 0 => Lookup(DiscountValues, p) = 0
  /\ Lookup(DiscountValues, <<10000, 7500>>) = 2500
  /\ Lookup(DiscountValues, <<0, 1000>>) = 0
  /\ Lookup(DiscountValues, <<2999, 1999>>) = 3334
  /\ Lookup(DiscountValues, <<4999, 3999>>) = 2000
  /\ \A p \in DiscountInputs :
       p[1] > 0 => Lookup(DiscountValues, p) - ExactDiscount(p[1], p[2]) \in {-1, 0}

\* a product was created on sale at 199.99 (was 200.00) without a discount
C27_CreatedWithoutDiscountCase ==
  \E i \in 1..Len(products) :
    /\ products[i].isOnSale /\ IsNull(products[i].discountPercent)
    /\ products[i].originalPrice = Some(20000) /\ products[i].currentPrice = Some(19999)

\* a product on sale at 199.99 (was 200.00) is stored with 33.34 percent off
C27_StaleDiscountCase ==
  \E i \in 1..Len(products) :
    /\ products[i].isOnSale /\ products[i].discountPercent = Some(3334)
    /\ products[i].originalPrice = Some(20000) /\ products[i].currentPrice = Some(19999)

\* ------------------------------------------------------------- parsePrice
\* A price text is a sequence of characters.  Chars are the characters of the
\* texts enumerated, Texts(n) the texts of length n over them.
DigitChars == <<"0", "1", "2", "3", "4", "5", "6", "7", "8", "9">>
IsDigit(c) == \E i \in 1..10 : DigitChars[i] = c
DigitValue(c) == (CHOOSE i \in 1..10 : DigitChars[i] = c) - 1

Chars == {"$", "5", "0", "."}
Texts(n) == [1..n -> Chars]

\* the arguments parsePrice is applied to: null or undefined, every text of
\* up to MaxTextLen characters, and the texts of the examples
PriceTextInputs ==
  {Null}
  \cup { Some(t) : t \in UNION { Texts(n) : n \in 0..MaxTextLen } }
  \cup { Some(<<"$", "2", "4", ".", "9", "9">>),
         Some(<<"2", "4", ".", "9", "9">>),
         Some(<<"$", "1", ",", "2", "3", "4", ".", "5", "6">>),
         Some(<<"N", "/", "A">>),
         Some(<<"5", ".", "5", ".">>),
         Some(<<".", "5", ".", "5">>),
         Some(<<".", ".", ".", " ", "$", "5", ".", "9", "9">>),
         Some(<<"$", "5", ".", "9", "9", " ", "e", "a", ".">>) }

\* priceStr.replace(/[^0-9.]/g, "")
IsDigitOrPoint(c) == IsDigit(c) \/ c = "."
Cleaned(text) == SelectSeq(text, IsDigitOrPoint)

\* the number of digits of s from position i on, up to the first character
\* that is not a digit
DigitRun(s, i) ==
  CHOOSE n \in 0..Len(s) :
    /\ i + n - 1 <= Len(s)
    /\ \A j \in i..(i + n - 1) : IsDigit(s[j])
    /\ (i + n > Len(s) \/ ~IsDigit(s[i + n]))

\* the number the digits s[lo..hi] write, after the digits written before
RECURSIVE DigitsValue(_, _, _, _)
DigitsValue(s, lo, hi, before) ==
  IF lo > hi THEN before
  ELSE DigitsValue(s, lo + 1, hi, 10 * before + DigitValue(s[lo]))

\* the decimal n / 10^k as a number
DecimalNumber(n, k) ==
  IF n = 0 THEN FloatZero ELSE RoundToDouble(1, Big(n), Big(10^k), 0)

\* parseFloat of a text of digits and points: the longest prefix that is a
\* decimal literal (digits, digits and a point, digits a point and digits, or
\* a point and digits) is read, and there is no number (NaN) without one
ParseFloatPrefix(s) ==
  Bind(s, LAMBDA t :
    Bind(DigitRun(t, 1), LAMBDA a :
      Bind(IF a < Len(t) /\ t[a + 1] = "." THEN DigitRun(t, a + 2) ELSE 0, LAMBDA b :
        IF a = 0 /\ b = 0 THEN Null
        ELSE Some(DecimalNumber(DigitsValue(t, a + 2, a + 1 + b,
                                            DigitsValue(t, 1, a, 0)), b)))))

\* parsePrice(priceStr): undefined (Null) or a number
parsePrice(priceStr) ==
  IF IsNull(priceStr) \/ Val(priceStr) = <<>> THEN Null
  ELSE ParseFloatPrefix(Cleaned(Val(priceStr)))

\* One call of parsePrice at a time, with any of the arguments: the call, and
\* its return.
parsePriceCalled ==
  /\ priceCall.pc \in {"idle", "returned"}
  /\ \E p \in PriceTextInputs :
       priceCall' = [pc |-> "called", priceStr |-> p, parsed |-> Null]
  /\ UNCHANGED << resultShape, site, limits, detectCall, settings, scrapeCall, scheduler, procVars,
                  storeVars, run, lastStop, lastReset, ownerNotes, clock, budgetVars >>

parsePriceReturns ==
  /\ priceCall.pc = "called"
  /\ priceCall' = [priceCall EXCEPT !.pc = "returned",
                                    !.parsed = parsePrice(priceCall.priceStr)]
  /\ UNCHANGED << resultShape, site, limits, detectCall, settings, scrapeCall, scheduler, procVars,
                  storeVars, run, lastStop, lastReset, ownerNotes, clock, budgetVars >>

\* a server that does nothing but parse price texts
PriceInit ==
  /\ resultShape = "tuple"
  /\ settings = Settings(Null, Null, Null)
  /\ site = {}
  /\ products = <<>>
  /\ limits = [ jobs |-> 0, served |-> 0, disturbances |-> 0, deactivated |-> 0,
                settingsChanges |-> 0, overlap |-> FALSE, refresh |-> FALSE, schedulerCalls |-> 0 ]
  /\ Started

PriceNext == parsePriceCalled \/ parsePriceReturns

PriceSpec == PriceInit /\ [][PriceNext]_vars

HasDigit(priceStr) ==
  ~IsNull(priceStr) /\ \E i \in 1..Len(Val(priceStr)) : IsDigit(Val(priceStr)[i])

\* a text of digits and points writes a number when it has a digit and at
\* most one point, and this is the number: the digits without the point,
\* over 10 to the number of digits after the point
WritesNumber(s) ==
  /\ \E i \in 1..Len(s) : IsDigit(s[i])
  /\ Cardinality({ i \in 1..Len(s) : s[i] = "." }) <= 1

NumberWritten(s) ==
  Bind(SelectSeq(s, IsDigit), LAMBDA digits :
    DecimalNumber(DigitsValue(digits, 1, Len(digits), 0),
                  IF \E i \in 1..Len(s) : s[i] = "."
                  THEN Len(s) - (CHOOSE i \in 1..Len(s) : s[i] = ".")
                  ELSE 0))

\* parsePrice has returned from the call with the text `text`
ReturnedFor(text) == priceCall.pc = "returned" /\ priceCall.priceStr = Some(text)

\* the call returned undefined where the argument has no digit, and the
\* number written by the cleaned argument where it writes one
ParsedAsWritten ==
  /\ ~HasDigit(priceCall.priceStr) => IsNull(priceCall.parsed)
  /\ (HasDigit(priceCall.priceStr) /\ WritesNumber(Cleaned(Val(priceCall.priceStr)))) =>
       priceCall.parsed = Some(NumberWritten(Cleaned(Val(priceCall.priceStr))))

\* C28: parsePrice returns undefined for null, undefined, the empty string
\* and every text without a digit; for every other text it returns a number,
\* the one written by the text that is left when every character that is not
\* a digit or a decimal point is deleted ("$1,234.56" gives 1234.56 and
\* "$24.99" gives 24.99).
C28_ParsePrice ==
  priceCall.pc = "returned" =>
    /\ ParsedAsWritten
    /\ HasDigit(priceCall.priceStr) => ~IsNull(priceCall.parsed)

\* what does hold: undefined without a digit, the number written when the
\* cleaned text writes one, the examples, and the number of the longest
\* decimal prefix otherwise
C28_ParsePriceOfNumerals ==
  /\ priceCall.pc = "returned" => ParsedAsWritten
  /\ ReturnedFor(<<"$", "1", ",", "2", "3", "4", ".", "5", "6">>) =>
       priceCall.parsed = Some(parseFloat(123456))
  /\ ReturnedFor(<<"$", "2", "4", ".", "9", "9">>) => priceCall.parsed = Some(parseFloat(2499))
  /\ ReturnedFor(<<"2", "4", ".", "9", "9">>) => priceCall.parsed = Some(parseFloat(2499))
  /\ ReturnedFor(<<"N", "/", "A">>) => priceCall.parsed = Null
  /\ ReturnedFor(<<>>) => priceCall.parsed = Null
  /\ (priceCall.pc = "returned" /\ priceCall.priceStr = Null) => priceCall.parsed = Null
  /\ ReturnedFor(<<"$", "5", ".", "9", "9", " ", "e", "a", ".">>) =>
       priceCall.parsed = Some(parseFloat(599))
  /\ ReturnedFor(<<"5", ".", "5", ".">>) => priceCall.parsed = Some(parseFloat(550))
  /\ ReturnedFor(<<".", "5", ".", "5">>) => priceCall.parsed = Some(parseFloat(50))

\* the texts with a digit that give undefined are those whose cleaned text
\* starts with two points
C28_UndefinedWithDigit ==
  (priceCall.pc = "returned" /\ HasDigit(priceCall.priceStr)) =>
    (IsNull(priceCall.parsed) <=>
       /\ Len(Cleaned(Val(priceCall.priceStr))) >= 2
       /\ Cleaned(Val(priceCall.priceStr))[1] = "."
       /\ Cleaned(Val(priceCall.priceStr))[2] = ".")

\* the examples of the claim were parsed
C28_ThousandsCase ==
  /\ ReturnedFor(<<"$", "1", ",", "2", "3", "4", ".", "5", "6">>)
  /\ priceCall.parsed = Some(parseFloat(123456))

\* "... $5.99" was parsed and gave undefined
C28_EllipsisCase ==
  /\ ReturnedFor(<<".", ".", ".", " ", "$", "5", ".", "9", "9">>)
  /\ IsNull(priceCall.parsed)

\* ------------------------------------------------------ scrapeCategoryPage
\* The invocation in slot r is inside a call of scrapeCategoryPage, and a step
\* of it stays in the call (it goes on with the next page) or leaves the call
\* (the call returns or throws).
InScrape(r) ==
  /\ run[r].pc = "page"
  /\ << run'[r].pc, run'[r].page, run'[r].subIdx >>
       # << run[r].pc, run[r].page, run[r].subIdx >>

NextPageStep(r) ==
  InScrape(r) /\ run'[r].pc = "page" /\ run'[r].subIdx = run[r].subIdx

LeavesScrape(r) == InScrape(r) /\ ~NextPageStep(r)

\* the call returns to runCrawl an array that starts with the records
\* gathered so far
ReturnsGathered(r) ==
  /\ run'[r].subIdx = run[r].subIdx
  /\ run'[r].pc \in {"reconcile", "subDelay"}
  /\ Len(run'[r].discovered) >= Len(run[r].discovered)
  /\ SubSeq(run'[r].discovered, 1, Len(run[r].discovered)) = run[r].discovered

\* pages are fetched in increasing order, one after the other, and never more
\* than maxPages of them
PagesInOrder ==
  /\ [][ \A r \in Runs : NextPageStep(r) => run'[r].page = run[r].page + 1 ]_vars
  /\ [](\A r \in Runs : run[r].pc = "page" => run[r].page \in 1..MaxPagesPerSub)

\* the call stops after a page that raised an error
StopsAfterError ==
  [][ \A r \in Runs : InScrape(r) /\ faults' # faults => LeavesScrape(r) ]_vars

\* C29: scrapeCategoryPage fetches pages 1, 2, ... in increasing order and at
\* most maxPages (2) of them, stops after the first page that raises an error,
\* and when it stops it returns the products gathered from the pages fetched
\* before.
C29_ScrapeCategoryPage ==
  /\ PagesInOrder
  /\ StopsAfterError
  /\ [][ \A r \in Runs :
           LeavesScrape(r) /\ run[r].discovered # <<>> => ReturnsGathered(r) ]_vars

\* what does hold: the order and the number of the pages, the stop after an
\* error, and the return of what was gathered whenever the call ends with a
\* page that was served or whose goto failed
C29_OrderBoundAndStop ==
  /\ PagesInOrder
  /\ StopsAfterError
  /\ [][ \A r \in Runs :
           LeavesScrape(r) /\ (GotoFails(r)
                                 \/ (faults' = faults
                                       /\ browsers[Val(run[r].browser)] = "open")) =>
             ReturnsGathered(r) ]_vars

\* the second page of a sub-category is being fetched after the first one
\* yielded a record
C29_SecondPageCase ==
  \E r \in Runs : run[r].pc = "page" /\ run[r].page = 2 /\ run[r].discovered # <<>>

\* ---------------------------------------------------------- rate-limit delay
\* a step of the invocation in slot r in which it fetches a page: the step of
\* a call of scrapeCategoryPage that does not leave the sub-category
GotoStep(r) == InScrape(r) /\ run'[r].subIdx = run[r].subIdx

\* C30: between any two consecutive page fetches of a job a rate-limit delay
\* elapses, between two pages of one sub-category and between the last page
\* of a sub-category and the first page of the next, also when the
\* processing of the previous sub-category ended with an error.
C30_DelayBetweenFetches ==
  [][ \A r \in Runs : GotoStep(r) => run[r].sinceFetch # "fetched" ]_vars

\* what does hold: a delay between two pages of one sub-category, and between
\* sub-categories unless an error was counted
C30_DelayUnlessError ==
  [][ \A r \in Runs :
        GotoStep(r) =>
          /\ run[r].page >= 2 => run[r].sinceFetch = "delayed"
          /\ run[r].sinceFetch = "fetched" => run[r].failedCount > 0 ]_vars

\* the first page of a later sub-category is about to be fetched, and no
\* delay has elapsed since the last fetch
C30_NoDelayCase ==
  \E r \in Runs :
    /\ run[r].pc = "page" /\ run[r].page = 1 /\ run[r].subIdx >= 2
    /\ run[r].sinceFetch = "fetched"

\* the second page of a sub-category is about to be fetched after the delay
C30_DelayedSecondPageCase ==
  \E r \in Runs :
    run[r].pc = "page" /\ run[r].page = 2 /\ run[r].sinceFetch = "delayed"

\* ---------------------------------------------------------- shared browser
\* the launched browsers that are open
OpenBrowsers == { i \in 1..Len(browsers) : browsers[i] = "open" }

\* a step in which chromium.launch() resolves
LaunchStep == Len(browsers') = Len(browsers) + 1

\* C31: the browser is a process-wide singleton: at most one browser is open,
\* every open browser is the one the shared handle refers to, and getBrowser
\* launches a browser only when the handle refers to none or to a
\* disconnected one, also when two invocations overlap.
C31_BrowserSingleton ==
  /\ [](Cardinality(OpenBrowsers) <= 1)
  /\ [](\A i \in OpenBrowsers : browserInstance = Some(i))
  /\ [][ LaunchStep => ~Connected(browserInstance) ]_vars

\* the parts one by one
C31_AtMostOneOpen == Cardinality(OpenBrowsers) <= 1

C31_OpenIsReferenced == \A i \in OpenBrowsers : browserInstance = Some(i)

C31_LaunchOnlyWhenDisconnected ==
  [][ LaunchStep => ~Connected(browserInstance) ]_vars

\* what does hold: the handle refers to the browser launched last or to none,
\* getBrowser hands out the shared browser while it is connected, and never
\* more browsers are open than invocations are in progress
C31_HandleIsLastLaunched ==
  /\ IsNull(browserInstance) \/ browserInstance = Some(Len(browsers))
  /\ \A r \in Runs : run[r].pc = "page" => ~IsNull(run[r].browser)
  /\ Cardinality(OpenBrowsers) <= Cardinality(Runs)

\* all invocations have returned and a browser is still open, with the
\* shared handle cleared
C31_LeakedBrowserCase ==
  /\ Quiet /\ \E r \in Runs : Returned(r)
  /\ OpenBrowsers # {} /\ IsNull(browserInstance)

\* two browsers are open at once
C31_TwoOpenCase == Cardinality(OpenBrowsers) = 2

\* ------------------------------------------------------------------ phase 2
\* A server whose runCrawl is called, one call after the other, by
\* crawl.trigger with or without productIds and directly with discovery
\* switched off; the inventory holds two products never crawled, the site
\* shows the first at its stored prices.
RefreshInit ==
  /\ resultShape \in {"tuple", "object"}
  /\ settings = Settings(Null, Null, Null)
  /\ site = { Link("/buy/1/a", "A", Some(1999), Some(2999), "") }
  /\ products = << StoredProduct("/buy/1/a", "A", 1999, Some(2999), TRUE, Some(3334), Null),
                   StoredProduct("/buy/2/b", "B", 1999, Null, FALSE, Null, Null) >>
  /\ limits = [ jobs |-> MaxSerialJobs, served |-> MaxSerialServed,
                disturbances |-> MaxSerialDisturbances,
                deactivated |-> MaxDeactivated, settingsChanges |-> 0,
                overlap |-> FALSE, refresh |-> TRUE, schedulerCalls |-> 0 ]
  /\ Started

RefreshNext ==
  \/ productUpdate
  \/ \E r \in Runs : crawlTrigger(r)
  \/ \E r \in Runs : runCrawlCall(r)
  \/ \E r \in Runs : CreateJob(r)
  \/ \E r \in Runs : LoadExisting(r)
  \/ \E r \in Runs : Launch(r)
  \/ \E r \in Runs : FetchPage(r)
  \/ \E r \in Runs : ReconcileOne(r)
  \/ \E r \in Runs : ReconcileThrows(r)
  \/ \E r \in Runs : SubDelay(r)
  \/ \E r \in Runs : Phase2(r)
  \/ \E r \in Runs : FinallyDone(r)
  \/ \E r \in Runs : Finalize(r)
  \/ \E r \in Runs : NotifyOwner(r)

RefreshSpec == RefreshInit /\ [][RefreshNext]_vars

\* the invocation in slot r ran discovery; a step in which its phase 2 runs
\* to the end of the job body without an error
DiscoveryRan(r) == run[r].discoverNew # Some(FALSE)
Phase2Step(r) == run[r].pc = "phase2" /\ run'[r].pc # "phase2" /\ faults' = faults

\* the ids of the active products of the requested category
Refreshable(category) ==
  { i \in 1..Len(products) :
      products[i].isActive /\ (category = "all" \/ products[i].category = category) }

\* the selection of phase 2 is the one described: the requested ids among the
\* active products, or else a set of active products with all of those never
\* crawled
SelectionAsDescribed(r) ==
  IF ~IsNull(run[r].productIds)
  THEN run'[r].selected = Val(run[r].productIds) \cap Refreshable(run[r].category)
  ELSE /\ run'[r].selected \subseteq Refreshable(run[r].category)
       /\ \A i \in Refreshable(run[r].category) :
            IsNull(products[i].lastCrawledAt) => i \in run'[r].selected

\* phase 2 writes nothing when discovery ran
WritesNothingAfterDiscovery ==
  [][ \A r \in Runs : Phase2Step(r) /\ DiscoveryRan(r) => UNCHANGED storeVars ]_vars

\* totalProducts is written only by a phase 2 without discovery, into the
\* record of its job, with the size of the selection
TotalIsSelectionSize ==
  [][ \A i \in 1..Len(jobs) :
        jobs'[i].totalProducts # jobs[i].totalProducts =>
          \E r \in Runs :
            /\ Phase2Step(r) /\ ~DiscoveryRan(r) /\ run[r].row = Some(i)
            /\ jobs'[i].totalProducts = Cardinality(run'[r].selected) ]_vars

\* C32: phase 2 acts only when discovery was skipped (discoverNew = false):
\* it selects the active products whose ids were requested, or else those
\* never crawled or crawled more than an hour ago, and refreshes them; when
\* discovery ran it writes nothing, and totalProducts is written only when
\* discovery was skipped, with the size of the selection.
C32_Phase2RefreshesSelection ==
  /\ WritesNothingAfterDiscovery
  /\ TotalIsSelectionSize
  /\ [][ \A r \in Runs :
           Phase2Step(r) /\ ~DiscoveryRan(r) =>
             /\ SelectionAsDescribed(r)
             /\ \A id \in run'[r].selected :
                  products'[id].lastCrawledAt = Some(clock) ]_vars

\* what does hold: all of it but the refresh
C32_SelectsAndCounts ==
  /\ WritesNothingAfterDiscovery
  /\ TotalIsSelectionSize
  /\ [][ \A r \in Runs :
           Phase2Step(r) /\ ~DiscoveryRan(r) =>
             SelectionAsDescribed(r) /\ UNCHANGED << products, priceHistory, notifications >> ]_vars

\* a job without discovery has returned, its record says two products were
\* to be updated, and no product was ever crawled
C32_CountedNotRefreshedCase ==
  \E r \in Runs :
    /\ Returned(r) /\ ~DiscoveryRan(r)
    /\ RowOf(r).totalProducts = 2 /\ RowOf(r).status = "completed"
    /\ \A i \in 1..Len(products) : IsNull(products[i].lastCrawledAt)

\* a crawl.trigger call with productIds has returned: discovery ran and
\* totalProducts was not written
C32_TriggerWithIdsCase ==
  \E r \in Runs :
    /\ Returned(r) /\ DiscoveryRan(r) /\ run[r].productIds = Some({1})
    /\ RowOf(r).totalProducts = 0
    /\ run[r].crawledCount = 1

\* ------------------------------------------- scrapeChemistWarehouseProduct
\* The page behind a product URL, as far as the function reads it: whether
\* axios.get resolves, the JSON-LD script blocks in document order, what the
\* four price patterns of the fallback give when passed to parsePrice, and
\* the name the title patterns find.  Prices are in cents; Null stands for
\* undefined, which is also what `parseFloat(...) || undefined` makes of a
\* missing, non-numeric or zero price.
\*
\* A block is text JSON.parse rejects ("malformed"), JSON that is not a
\* Product ("other"), or a Product with a name and possibly an offer; the
\* offer has a price and a priceSpecification that is absent, has a list
\* price, or makes `s.priceType?.includes(...)` throw (a priceType that is
\* not a string).
Offer(price, spec, listPrice) == [price |-> price, spec |-> spec, listPrice |-> listPrice]

OfferInputs ==
  { Offer(p, "absent", Null) : p \in {Null, Some(1000)} }
  \cup { Offer(p, "list", l) : p \in {Null, Some(1000)}, l \in {Null, Some(1500), Some(1000)} }
  \cup { Offer(p, "throws", Null) : p \in {Null, Some(1200)} }

BlockInputs ==
  { [kind |-> "malformed", name |-> Null, offer |-> Null],
    [kind |-> "other", name |-> Null, offer |-> Null],
    [kind |-> "product", name |-> Some("N"), offer |-> Null] }
  \cup { [kind |-> "product", name |-> Some("N"), offer |-> Some(o)] : o \in OfferInputs }

\* what parsePrice gives for the first capture of each of the four patterns
PatternInputs ==
  { << Null, Null, Null, Null >>,
    << Null, Some(900), Some(950), Null >>,
    << Some(0), Null, Null, Some(950) >> }

PageInputs ==
  { [fetch |-> "fails", blocks |-> <<>>, patterns |-> << Null, Null, Null, Null >>,
     title |-> Null] }
  \cup { [fetch |-> "ok", blocks |-> b, patterns |-> p, title |-> t] :
           b \in UNION { [1..n -> BlockInputs] : n \in 0..MaxBlocks },
           p \in PatternInputs, t \in {Null, Some("T")} }

\* `const result: CrawledProductData = {}`, as far as the claims read it
EmptyResult == [name |-> Null, currentPrice |-> Null, originalPrice |-> Null]

\* the body of the loop over the script blocks for one block: the result
\* after it, and whether `break` was reached
ReadBlock(result, block) ==
  IF block.kind # "product" THEN [result |-> result, break |-> FALSE]
  ELSE LET named == [result EXCEPT !.name = block.name]
       IN IF IsNull(block.offer) THEN [result |-> named, break |-> TRUE]
          ELSE LET offer == Val(block.offer)
                   priced == [named EXCEPT !.currentPrice = offer.price]
               IN IF offer.spec = "throws" THEN [result |-> priced, break |-> FALSE]
                  ELSE IF offer.spec = "list" /\ ~IsNull(offer.listPrice)
                  THEN [result |-> [priced EXCEPT !.originalPrice = offer.listPrice],
                        break |-> TRUE]
                  ELSE [result |-> priced, break |-> TRUE]

\* `for (const script of jsonLdMatch)` from block i on
RECURSIVE ReadBlocks(_, _, _)
ReadBlocks(result, blocks, i) ==
  IF i > Len(blocks) THEN result
  ELSE LET read == ReadBlock(result, blocks[i])
       IN IF read.break THEN read.result ELSE ReadBlocks(read.result, blocks, i + 1)

\* `for (const pattern of pricePatterns)`: the value of the first pattern
\* whose capture parses to a price that is not falsy
FallbackPrice(patterns) ==
  IF \E i \in 1..Len(patterns) : Truthy(patterns[i])
  THEN patterns[CHOOSE i \in 1..Len(patterns) :
                  Truthy(patterns[i]) /\ \A j \in 1..(i - 1) : ~Truthy(patterns[j])]
  ELSE Null

\* a fallback that is consulted first
PatternsFirst(found, patterns) ==
  IF Truthy(FallbackPrice(patterns)) THEN FallbackPrice(patterns) ELSE found

\* `if (!result.currentPrice) { ... }`
PriceOrFallback(found, patterns) ==
  IF Truthy(found) THEN found ELSE FallbackPrice(patterns)

\* the discount of the one pair of prices that is on sale
ScrapeDiscounts == Tabulated({ <<1500, 1000>>, <<1500, 900>>, <<1500, 950>>,
                               <<1500, 1200>>, <<1000, 900>>, <<1000, 950>> },
                             DiscountOfPair)

\* scrapeChemistWarehouseProduct(url): null, or the record found
scrapeChemistWarehouseProduct(page) ==
  IF page.fetch = "fails" THEN Null
  ELSE LET ld == ReadBlocks(EmptyResult, page.blocks, 1)
           currentPrice == PriceOrFallback(ld.currentPrice, page.patterns)
           name == IF IsNull(ld.name) THEN page.title ELSE ld.name
           isOnSale == /\ Truthy(currentPrice) /\ Truthy(ld.originalPrice)
                       /\ Val(ld.originalPrice) > Val(currentPrice)
       IN IF ~Truthy(currentPrice) THEN Null
          ELSE Some([ name |-> name, currentPrice |-> currentPrice,
                      originalPrice |-> ld.originalPrice, isOnSale |-> isOnSale,
                      discountPercent |->
                        IF isOnSale
                        THEN Some(Lookup(ScrapeDiscounts,
                                         <<Val(ld.originalPrice), Val(currentPrice)>>))
                        ELSE Null ])

\* A call for any of the pages, and its return.  The function keeps nothing
\* between calls, so one call is followed per behaviour.
scrapeCalled ==
  /\ scrapeCall.pc = "idle"
  /\ \E page \in PageInputs :
       scrapeCall' = [pc |-> "called", page |-> Some(page), returned |-> Null]
  /\ UNCHANGED << resultShape, site, limits, detectCall, settings, priceCall, scheduler, procVars,
                  storeVars, run, lastStop, lastReset, ownerNotes, clock, budgetVars >>

scrapeReturns ==
  /\ scrapeCall.pc = "called"
  /\ scrapeCall' = [scrapeCall EXCEPT
                      !.pc = "returned",
                      !.returned = Some(scrapeChemistWarehouseProduct(Val(scrapeCall.page)))]
  /\ UNCHANGED << resultShape, site, limits, detectCall, settings, priceCall, scheduler, procVars,
                  storeVars, run, lastStop, lastReset, ownerNotes, clock, budgetVars >>

ScrapeNext == scrapeCalled \/ scrapeReturns

ScrapeSpec == PriceInit /\ [][ScrapeNext]_vars

\* ------------------------------------------------------------------- C33
ScrapeReturned == scrapeCall.pc = "returned"
ScrapedPage == Val(scrapeCall.page)
ScrapedRecord == Val(scrapeCall.returned)

\* the block is read to its end: JSON.parse accepts it and no step of the
\* reading throws
ReadsCleanly(block) ==
  /\ block.kind # "malformed"
  /\ (block.kind = "product" /\ ~IsNull(block.offer)) => Val(block.offer).spec # "throws"

\* the price of the primary offer of the first Product block
FirstProductPrice(blocks) ==
  IF \E i \in 1..Len(blocks) : blocks[i].kind = "product"
  THEN LET first == blocks[CHOOSE i \in 1..Len(blocks) :
                             /\ blocks[i].kind = "product"
                             /\ \A j \in 1..(i - 1) : blocks[j].kind # "product"]
       IN IF IsNull(first.offer) THEN Null ELSE Val(first.offer).price
  ELSE Null

\* what the structured data of the page gave as the current price
StructuredPrice(page) == ReadBlocks(EmptyResult, page.blocks, 1).currentPrice

WithoutMalformed(page) ==
  [page EXCEPT !.blocks = SelectSeq(page.blocks, LAMBDA b : b.kind # "malformed")]

\* C33: single-product extraction tries its strategies in priority order.
\* When the call has returned: a current price the structured data gave is
\* the one returned (on a page whose blocks are all read cleanly that is the
\* price of the primary offer of the first Product block); the returned
\* price is the one of the HTML patterns only when the structured data gave
\* none; a page with malformed blocks returns what the page without them
\* returns; the call returns null when the fetch fails or when neither
\* strategy resolves a current price; and on-sale is declared only with an
\* original price strictly greater than the current price.
C33_ExtractionPriority ==
  ScrapeReturned =>
    LET page == ScrapedPage
        structured == StructuredPrice(page)
    IN /\ (page.fetch = "ok" /\ Truthy(structured)) =>
            /\ ~IsNull(ScrapedRecord)
            /\ Val(ScrapedRecord).currentPrice = structured
       /\ (page.fetch = "ok" /\ \A i \in 1..Len(page.blocks) : ReadsCleanly(page.blocks[i])) =>
            structured = FirstProductPrice(page.blocks)
       /\ (~IsNull(ScrapedRecord) /\ Val(ScrapedRecord).currentPrice # structured) =>
            /\ ~Truthy(structured)
            /\ Val(ScrapedRecord).currentPrice = FallbackPrice(page.patterns)
       /\ ScrapedRecord = scrapeChemistWarehouseProduct(WithoutMalformed(page))
       /\ page.fetch = "fails" => IsNull(ScrapedRecord)
       /\ (~Truthy(structured) /\ ~Truthy(FallbackPrice(page.patterns))) =>
            IsNull(ScrapedRecord)
       /\ ~IsNull(ScrapedRecord) =>
            /\ Truthy(Val(ScrapedRecord).currentPrice)
            /\ Val(ScrapedRecord).isOnSale <=>
                 /\ Truthy(Val(ScrapedRecord).originalPrice)
                 /\ Val(Val(ScrapedRecord).originalPrice) > Val(Val(ScrapedRecord).currentPrice)

\* a page whose first block is malformed, whose second is a Product at
\* 10.00 with a list price of 15.00, and whose patterns find 9.00: the call
\* returned 10.00, on sale
C33_StructuredBeforePatternsCase ==
  /\ ScrapeReturned
  /\ Len(ScrapedPage.blocks) = 2
  /\ ScrapedPage.blocks[1].kind = "malformed"
  /\ ScrapedPage.blocks[2].kind = "product"
  /\ FallbackPrice(ScrapedPage.patterns) = Some(900)
  /\ ~IsNull(ScrapedRecord)
  /\ Val(ScrapedRecord).currentPrice = Some(1000)
  /\ Val(ScrapedRecord).originalPrice = Some(1500)
  /\ Val(ScrapedRecord).isOnSale

\* a page whose structured data has no price and whose patterns find 9.00
\* after a first capture that parses to zero or nothing: 9.00 is returned
C33_FallbackCase ==
  /\ ScrapeReturned
  /\ ScrapedPage.fetch = "ok"
  /\ ~Truthy(StructuredPrice(ScrapedPage))
  /\ ~IsNull(ScrapedRecord)
  /\ Val(ScrapedRecord).currentPrice \in {Some(900), Some(950)}

\* a Product block that throws after its price was read is not left by
\* `break`: its fields stay, and a later Product block writes over them
C33_ThrowingBlockCase ==
  /\ ScrapeReturned
  /\ Len(ScrapedPage.blocks) = 2
  /\ ~ReadsCleanly(ScrapedPage.blocks[1])
  /\ ScrapedPage.blocks[1].kind = "product"
  /\ FirstProductPrice(ScrapedPage.blocks) = Some(1200)
  /\ ~IsNull(ScrapedRecord)
  /\ Val(ScrapedRecord).currentPrice = Some(1000)

\* ------------------------------------------------------------ scheduler.ts
\* getSchedulerStatus(), without the clock arithmetic
getSchedulerStatus ==
  [ isRunning |-> ~IsNull(scheduler.schedulerInterval),
    nextRunTime |-> scheduler.nextRunTime ]

Timer(state, r) == [state |-> state, run |-> r]

\* scheduleNextRun(): nextRunTime is the next Monday 9:00 and setTimeout
\* creates a timer, whose handle is stored in schedulerInterval
scheduleNextRun(s) ==
  [s EXCEPT !.nextRunTime = Some("Monday 9:00"),
            !.timers = Append(@, Timer("pending", Null)),
            !.schedulerInterval = Some(Len(s.timers) + 1)]

\* clearTimeout(handle) cancels a timer that has not fired, and does nothing
\* to one whose callback has started
clearTimeout(timers, t) ==
  [timers EXCEPT ![t] = IF @.state = "pending" THEN Timer("cleared", Null) ELSE @]

\* the promise of the invocation in slot r is settled; the callback of timer
\* t can go on after its `await runCrawl(...)`.  The continuation runs before
\* any other timer or request is served.
Settled(r) == run[r].pc \notin (LivePcs \cup {"idle"})
Resumable(t) ==
  /\ scheduler.timers[t].state = "running"
  /\ Settled(Val(scheduler.timers[t].run))
NoContinuation == \A t \in 1..Len(scheduler.timers) : ~Resumable(t)

CallbackRunning == \E t \in 1..Len(scheduler.timers) : scheduler.timers[t].state = "running"

SchedulerCall(name, halted) ==
  [scheduler EXCEPT !.calls = @ + 1, !.lastCall = name, !.halted = halted]

\* startScheduler(): returns at once when schedulerInterval is set, otherwise
\* scheduleNextRun()
startScheduler ==
  /\ scheduler.calls < limits.schedulerCalls
  /\ NoContinuation
  /\ scheduler' = IF ~IsNull(scheduler.schedulerInterval)
                  THEN SchedulerCall("start", FALSE)
                  ELSE scheduleNextRun(SchedulerCall("start", FALSE))
  /\ UNCHANGED << resultShape, site, limits, detectCall, settings, priceCall, scrapeCall, procVars,
                  storeVars, run, lastStop, lastReset, ownerNotes, clock, budgetVars >>

\* stopScheduler(): when schedulerInterval is set, clearTimeout on it and
\* both variables become null
stopScheduler ==
  /\ scheduler.calls < limits.schedulerCalls
  /\ NoContinuation
  /\ scheduler' = IF ~IsNull(scheduler.schedulerInterval)
                  THEN [SchedulerCall("stop", TRUE) EXCEPT
                          !.timers = clearTimeout(@, Val(scheduler.schedulerInterval)),
                          !.schedulerInterval = Null,
                          !.nextRunTime = Null,
                          !.midCrawlStop = @ \/ CallbackRunning]
                  ELSE [SchedulerCall("stop", TRUE) EXCEPT
                          !.midCrawlStop = @ \/ CallbackRunning]
  /\ UNCHANGED << resultShape, site, limits, detectCall, settings, priceCall, scrapeCall, procVars,
                  storeVars, run, lastStop, lastReset, ownerNotes, clock, budgetVars >>

\* timer t fires: its callback calls runCrawl({jobType: "scheduled",
\* category: "all"}) and awaits it inside try/catch
timerFires(t, r) ==
  /\ t \in 1..Len(scheduler.timers)
  /\ scheduler.timers[t].state = "pending"
  /\ NoContinuation
  /\ scheduler' = [scheduler EXCEPT !.timers[t] = Timer("running", Some(r)),
                                    !.lastCall = "fire"]
  /\ ScheduledRun(r)
  /\ UNCHANGED << resultShape, site, limits, detectCall, settings, priceCall, scrapeCall, procVars,
                  storeVars, lastStop, lastReset, ownerNotes, clock, served, stops,
                  resets >>

\* the awaited runCrawl resolved or rejected: the callback of timer t logs,
\* sets schedulerInterval = null and calls scheduleNextRun()
timerCallbackEnds(t) ==
  /\ t \in 1..Len(scheduler.timers)
  /\ Resumable(t)
  /\ scheduler' = scheduleNextRun([scheduler EXCEPT
                                     !.timers[t] = Timer("finished", @.run),
                                     !.schedulerInterval = Null,
                                     !.lastCall = "end"])
  /\ UNCHANGED << resultShape, site, limits, detectCall, settings, priceCall, scrapeCall, procVars,
                  storeVars, run, lastStop, lastReset, ownerNotes, clock, budgetVars >>

\* The scheduler over a site of one product and an empty store: calls of
\* startScheduler and stopScheduler at any moment, timers that fire at any
\* moment, and the scheduled crawls they start, which may overlap.
SchedulerInit ==
  /\ resultShape \in {"tuple", "object"}
  /\ settings = Settings(Null, Null, Null)
  /\ site = { Link("/buy/1/a", "A", Some(1999), Some(2999), "") }
  /\ products = <<>>
  /\ limits = [ jobs |-> MaxScheduledJobs, served |-> MaxSerialServed,
                disturbances |-> MaxSerialDisturbances,
                deactivated |-> 0, settingsChanges |-> 0,
                overlap |-> TRUE, refresh |-> FALSE,
                schedulerCalls |-> MaxSchedulerCalls ]
  /\ Started

SchedulerNext ==
  \/ startScheduler
  \/ stopScheduler
  \/ \E t \in 1..Len(scheduler.timers), r \in Runs : timerFires(t, r)
  \/ \E t \in 1..Len(scheduler.timers) : timerCallbackEnds(t)
  \/ \E r \in Runs : CreateJob(r)
  \/ \E r \in Runs : LoadExisting(r)
  \/ \E r \in Runs : Launch(r)
  \/ \E r \in Runs : FetchPage(r)
  \/ \E r \in Runs : ReconcileOne(r)
  \/ \E r \in Runs : SubDelay(r)
  \/ \E r \in Runs : Phase2(r)
  \/ \E r \in Runs : FinallyDone(r)
  \/ \E r \in Runs : Finalize(r)
  \/ \E r \in Runs : NotifyOwner(r)

SchedulerSpec == SchedulerInit /\ [][SchedulerNext]_vars

\* ------------------------------------------------------------------- C34
PendingTimers == { t \in 1..Len(scheduler.timers) : scheduler.timers[t].state = "pending" }
RunningTimers == { t \in 1..Len(scheduler.timers) : scheduler.timers[t].state = "running" }

\* a step that arms a timer; a step in which a timer fires and its callback
\* calls runCrawl
ArmsTimer == Len(scheduler'.timers) > Len(scheduler.timers)
StartsScheduledCrawl ==
  \E t \in PendingTimers : scheduler'.timers[t].state = "running"

\* a step taken after stopScheduler returned and before the next call of
\* startScheduler
WhileHalted == scheduler.halted /\ scheduler'.halted

\* C34: after stopScheduler returns and until startScheduler is called
\* again, getSchedulerStatus().isRunning is false, no step arms a timer and
\* no step starts a scheduled crawl, whether or not a scheduled crawl was
\* executing when stopScheduler was called.
C34_StopSchedulerHalts ==
  /\ [](scheduler.halted => ~getSchedulerStatus.isRunning)
  /\ [][ WhileHalted => (~ArmsTimer /\ ~StartsScheduledCrawl) ]_vars

\* the same in a process where stopScheduler was never called while a timer
\* callback was running: nothing is armed and nothing is pending
C34_HaltsOutsideCallback ==
  (scheduler.halted /\ ~scheduler.midCrawlStop) =>
    /\ ~getSchedulerStatus.isRunning
    /\ IsNull(getSchedulerStatus.nextRunTime)
    /\ PendingTimers = {}

\* stopScheduler returned while a scheduled crawl was executing; the crawl
\* ended and its callback armed the next run: the scheduler reports
\* isRunning although nobody called startScheduler
C34_RearmedAfterStopCase ==
  /\ scheduler.halted
  /\ scheduler.lastCall = "end"
  /\ getSchedulerStatus.isRunning
  /\ PendingTimers # {}

\* the timer armed after stopScheduler fired, and a second scheduled crawl
\* is in its job body
C34_CrawlAfterStopCase ==
  /\ scheduler.halted
  /\ scheduler.calls = 2
  /\ \E t \in RunningTimers : t > 1 /\ run[Val(scheduler.timers[t].run)].pc \in BodyPcs

\* stopScheduler called with a timer pending and no callback running
C34_StoppedPendingCase ==
  /\ scheduler.halted /\ ~scheduler.midCrawlStop
  /\ \E t \in 1..Len(scheduler.timers) : scheduler.timers[t].state = "cleared"

\* ------------------------------------------------------------------- C35
\* the scheduled crawls in progress: the timer callbacks that await runCrawl
ScheduledCrawlsInProgress == RunningTimers

\* a call of startScheduler returns; the callback of a timer ends
StartSchedulerStep == scheduler'.calls = scheduler.calls + 1 /\ scheduler'.lastCall = "start"
CallbackEndStep ==
  \E t \in RunningTimers : scheduler'.timers[t].state = "finished"

ArmedBy == Len(scheduler'.timers) - Len(scheduler.timers)

\* C35: at every moment at most one scheduled-run timer is pending and at
\* most one scheduled crawl is in progress; startScheduler called while the
\* scheduler is armed changes nothing; and the step in which a scheduled
\* crawl's callback ends arms exactly one timer, or none when stopScheduler
\* has been called since the last startScheduler.
C35_OneTimerOneCrawl ==
  /\ [](Cardinality(PendingTimers) <= 1)
  /\ [](Cardinality(ScheduledCrawlsInProgress) <= 1)
  /\ [][ (StartSchedulerStep /\ getSchedulerStatus.isRunning) =>
           /\ scheduler'.timers = scheduler.timers
           /\ scheduler'.schedulerInterval = scheduler.schedulerInterval ]_vars
  /\ [][ CallbackEndStep => ArmedBy = (IF scheduler.halted THEN 0 ELSE 1) ]_vars

\* what the code keeps: startScheduler while schedulerInterval is set is a
\* no-op, the end of a callback arms exactly one timer, stopped or not, and
\* the handle held is the timer armed last
C35_ArmsOnePerEnd ==
  /\ [][ (StartSchedulerStep /\ getSchedulerStatus.isRunning) =>
           /\ scheduler'.timers = scheduler.timers
           /\ scheduler'.schedulerInterval = scheduler.schedulerInterval ]_vars
  /\ [][ CallbackEndStep => ArmedBy = 1 ]_vars
  /\ [](\A t \in PendingTimers :
          scheduler.schedulerInterval = Some(t) \/ scheduler.midCrawlStop)

\* without a stopScheduler during a callback: one timer or one crawl, never
\* both and never more
C35_OneAtATimeOutsideCallback ==
  ~scheduler.midCrawlStop =>
    Cardinality(PendingTimers) + Cardinality(ScheduledCrawlsInProgress) <= 1

\* two timers pending: the one startScheduler armed after a stopScheduler
\* during a crawl, and the one the callback of that crawl armed at its end
C35_TwoPendingCase ==
  /\ Cardinality(PendingTimers) = 2
  /\ scheduler.lastCall = "end"

\* two scheduled crawls in their job bodies at once
C35_TwoCrawlsCase ==
  /\ Cardinality(ScheduledCrawlsInProgress) = 2
  /\ \A r \in Runs : run[r].pc \in BodyPcs /\ run[r].jobType = "scheduled"

\* startScheduler was called while armed and nothing was armed by it
C35_SecondStartCase ==
  /\ scheduler.lastCall = "start"
  /\ scheduler.calls = 2
  /\ Len(scheduler.timers) = 1
  /\ ~scheduler.halted

\* ------------------------------------------------------------------- C36
\* isCrawlRunning(): `_currentJobId !== null`
isCrawlRunning == ~IsNull(currentJobId)

InBody(r) == run[r].pc \in BodyPcs

\* the step in which invocation r registers its job; a step of its finally
\* block (close() is called, or the block ends)
RegisterStep(r) == run[r].pc = "create" /\ run'[r].pc \in BodyPcs
CleanupStep(r) ==
  \/ InBody(r) /\ run[r].pc # "closing" /\ run'[r].pc \in {"closing", "final"}
  \/ run[r].pc = "closing" /\ run'[r].pc = "final"

\* invocation o is in its job body, holds an open browser; is the registered
\* job; has had a stop request acknowledged that is still pending
UsesBrowser(o) ==
  InBody(o) /\ ~IsNull(run[o].browser) /\ browsers[Val(run[o].browser)] = "open"
Registered(o) == InBody(o) /\ currentJobId = Some(run[o].jobId)
StopPending(o) == InBody(o) /\ run[o].stopAcked /\ crawlStopped

\* C36: invocations do not disturb each other through the shared process
\* state.  The step in which one registers its job leaves the stop flag set
\* when a stop request is pending for another that is in its job body; a
\* step of the finally block of one leaves open the browser another is
\* using, and leaves the active job id and the stop flag of another as they
\* are; and isCrawlRunning() is true whenever an invocation is in its job
\* body.
C36_RunsDoNotDisturb ==
  /\ [][ \A r \in Runs : \A o \in Runs \ {r} :
           (RegisterStep(r) /\ StopPending(o)) => crawlStopped' ]_vars
  /\ [][ \A r \in Runs : \A o \in Runs \ {r} :
           CleanupStep(r) =>
             /\ UsesBrowser(o) => browsers'[Val(run[o].browser)] = "open"
             /\ Registered(o) => currentJobId' = currentJobId
             /\ StopPending(o) => crawlStopped' ]_vars
  /\ [](\A r \in Runs : InBody(r) => isCrawlRunning)

\* the three parts on their own
C36_StartKeepsStop ==
  [][ \A r \in Runs : \A o \in Runs \ {r} :
        (RegisterStep(r) /\ StopPending(o)) => crawlStopped' ]_vars
C36_CleanupKeepsOther ==
  [][ \A r \in Runs : \A o \in Runs \ {r} :
        CleanupStep(r) =>
          /\ UsesBrowser(o) => browsers'[Val(run[o].browser)] = "open"
          /\ Registered(o) => currentJobId' = currentJobId
          /\ StopPending(o) => crawlStopped' ]_vars
C36_RunningWhileInBody == \A r \in Runs : InBody(r) => isCrawlRunning

\* an invocation fetching pages whose browser was closed by the finally
\* block of the other, which has returned
C36_BrowserClosedCase ==
  \E r \in Runs : \E o \in Runs \ {r} :
    /\ run[r].pc = "done"
    /\ run[o].pc \in DiscoveryPcs
    /\ ~IsNull(run[o].browser) /\ browsers[Val(run[o].browser)] = "closed"

\* an invocation in its job body while isCrawlRunning() is false
C36_NotRunningCase ==
  \E o \in Runs : run[o].pc \in DiscoveryPcs /\ ~isCrawlRunning

\* a stop acknowledged for an invocation that is still in discovery, and
\* the flag is down again
C36_StopLostCase ==
  \E o \in Runs : run[o].pc \in DiscoveryPcs /\ run[o].stopAcked /\ ~crawlStopped

\* ------------------------------------------------------------------- C37
HasRecord(r) == run[r].pc \in (BodyPcs \cup {"final", "notify", "done"}) /\ ~IsNull(run[r].row)

UsesOwnId(r) == HasRecord(r) => run[r].jobId = Val(run[r].row)
RegistersOwnId(r) == RegisterStep(r) => currentJobId' = Some(Val(run'[r].row))
OwnRecordLeftRunning(r) == Returned(r) /\ ~run[r].rejected /\ RowOf(r).status = "running"

\* C37: the job id an invocation uses for its updates and registers as the
\* active job id is the id of the crawl_jobs row it inserted, and no
\* invocation that has returned has left that row with status `running`.
C37_JobIdIsOwnRecord ==
  /\ [](\A r \in Runs : UsesOwnId(r))
  /\ [][ \A r \in Runs : RegistersOwnId(r) ]_vars
  /\ [](\A r \in Runs : ~OwnRecordLeftRunning(r))

\* the same where insert resolves to an object with insertId, as the mocked
\* store of the tests does
C37_OwnRecordWithInsertId ==
  /\ [](resultShape = "object" => \A r \in Runs : UsesOwnId(r))
  /\ [][ resultShape = "object" => \A r \in Runs : RegistersOwnId(r) ]_vars
  /\ [](resultShape = "object" => \A r \in Runs : ~OwnRecordLeftRunning(r))

\* with the driver's result the id is 0 in every invocation
C37_ZeroWithDriverResult ==
  resultShape = "tuple" => \A r \in Runs : HasRecord(r) => run[r].jobId = 0

\* an invocation returned, its job id is 0, and the row it inserted is still
\* `running` with no completedAt
C37_LeftRunningCase ==
  \E r \in Runs :
    /\ OwnRecordLeftRunning(r)
    /\ run[r].jobId = 0
    /\ IsNull(RowOf(r).completedAt)

\* an invocation returned with the id of its row, which is `completed`
C37_OwnRecordFinalizedCase ==
  \E r \in Runs :
    /\ Returned(r) /\ ~run[r].rejected
    /\ run[r].jobId = Val(run[r].row)
    /\ RowOf(r).status = "completed"

\* ------------------------------------------------------------------- C38
\* the statuses the code writes: 'running' at createCrawlJob, the status of
\* the final updateCrawlJob, 'stopped' in resetStuckJobs
WrittenStatuses ==
  {"running", "stopped"}
  \cup { FinalStatus(w, f, c) : w \in BOOLEAN, f \in 0..1, c \in 0..1 }

\* a step in which the final updateCrawlJob is refused by the column; a
\* call of resetStuckJobs that was refused
FinalWriteRefused ==
  \E r \in Runs : run[r].pc = "final" /\ run'[r].rejected /\ faults' = faults
ResetRefused == lastReset.threw

\* a call of resetStuckJobs that finds rows to write `stopped` into
ResetWrites == resets' = resets + 1 /\ StuckRows(jobs) # {}

\* C38: every status runCrawl or resetStuckJobs writes is a status the
\* crawl_jobs table declares, `stopped` among them; so every stored status is
\* a declared one, no final update and no resetStuckJobs is refused by the
\* column, and no status is stored as another value than the one written.
C38_StatusesAreDeclared ==
  /\ [][ ResetWrites => "stopped" \in DeclaredJobStatus ]_vars
  /\ [](\A r \in Runs : run[r].pc = "final" =>
          FinalStatus(run[r].wasStopped, run[r].failedCount, run[r].crawledCount)
            \in DeclaredJobStatus)
  /\ [](\A i \in 1..Len(jobs) : jobs[i].status \in DeclaredJobStatus)
  /\ [](~ResetRefused)
  /\ [][ ~FinalWriteRefused ]_vars

\* every status written other than `stopped` is declared, and a stored
\* status is a declared one or the '' a refused `stopped` is coerced to
C38_AllButStoppedDeclared ==
  /\ (WrittenStatuses \ {"stopped"}) \subseteq DeclaredJobStatus
  /\ \A i \in 1..Len(jobs) : jobs[i].status \in (DeclaredJobStatus \cup {""})
  /\ \A r \in Runs : run[r].pc = "final" =>
       FinalStatus(run[r].wasStopped, run[r].failedCount, run[r].crawledCount)
         \in DeclaredJobStatus

\* resetStuckJobs found a running row: its status is stored as '' (sql_mode
\* not strict), or the call rejected and the row is still running (strict)
C38_CoercedCase ==
  /\ lastReset.returned = Some(1)
  /\ \E i \in 1..Len(jobs) : jobs[i].status = ""

C38_RefusedCase ==
  /\ ResetRefused
  /\ \E i \in 1..Len(jobs) : jobs[i].status = "running"

\* ------------------------------------- detectAndNotifyPriceChange on its own
\* The arguments of a call: the product as the caller holds it (its stored
\* price unknown, zero, or one of DetectOldPrices), the new record (without
\* a current price, or at one of DetectNewPrices), and the settings of the
\* job with the default thresholds.
DetectProductInputs ==
  { [id |-> 1, row |-> [currentPrice |-> p, isOnSale |-> s]] :
      p \in {Null, Some(0)} \cup { Some(c) : c \in DetectOldPrices }, s \in BOOLEAN }

DetectRecordInputs ==
  { [currentPrice |-> p, originalPrice |-> o, isOnSale |-> s,
     discountPercent |-> IF s THEN Some(3334) ELSE Null] :
      p \in {0} \cup DetectNewPrices, o \in {Null, Some(2999)}, s \in BOOLEAN }

DetectSettingsInputs ==
  { [priceDrop |-> DefaultPriceDrop, priceIncrease |-> DefaultPriceIncrease,
     notifyOnSale |-> n] : n \in BOOLEAN }

\* detectAndNotifyPriceChange(product, newData, settings) is called; it
\* returns after the notifications it creates
detectCalled ==
  /\ detectCall.pc = "idle"
  /\ \E product \in DetectProductInputs, newData \in DetectRecordInputs,
        s \in DetectSettingsInputs :
       detectCall' = [pc |-> "called", product |-> Some(product),
                      newData |-> Some(newData), settings |-> Some(s)]
  /\ UNCHANGED << resultShape, site, limits, settings, priceCall, scrapeCall, scheduler,
                  procVars, storeVars, run, lastStop, lastReset, ownerNotes, clock,
                  budgetVars >>

detectReturns ==
  /\ detectCall.pc = "called"
  /\ notifications' = notifications \o
       detectAndNotifyPriceChange(Val(detectCall.product), Val(detectCall.newData),
                                  Val(detectCall.settings))
  /\ detectCall' = [detectCall EXCEPT !.pc = "returned"]
  /\ UNCHANGED << resultShape, site, limits, settings, priceCall, scrapeCall, scheduler,
                  procVars, jobs, products, priceHistory, run, lastStop, lastReset,
                  ownerNotes, clock, budgetVars >>

DetectNext == detectCalled \/ detectReturns

DetectSpec == PriceInit /\ [][DetectNext]_vars

\* ------------------------------------------------------------------- C39
DetectReturned == detectCall.pc = "returned"
TypesCreated == { notifications[k].type : k \in 1..Len(notifications) }
PriceTypes == {"price_drop", "price_increase"}
SaleTypes == {"new_sale", "sale_ended"}
OldPriceOf == Val(detectCall.product).row.currentPrice
NewPriceOf == Val(detectCall.newData).currentPrice

\* the two prices, in cents, are at most 0.01 apart
WithinOneCent(old, new) == old - new <= 1 /\ new - old <= 1

\* C39: a call of the detector for an existing product creates at most two
\* notifications, never both new_sale and sale_ended and never both
\* price_drop and price_increase; none of the price types when the stored
\* price is null or zero or when stored and new price are at most 0.01
\* apart; and none at all when the new record has no current price.
C39_AtMostTwoNotifications ==
  DetectReturned =>
    /\ Len(notifications) <= 2
    /\ ~(SaleTypes \subseteq TypesCreated)
    /\ ~(PriceTypes \subseteq TypesCreated)
    /\ ~Truthy(OldPriceOf) => TypesCreated \cap PriceTypes = {}
    /\ (Truthy(OldPriceOf) /\ WithinOneCent(Val(OldPriceOf), NewPriceOf)) =>
         TypesCreated \cap PriceTypes = {}
    /\ NewPriceOf = 0 => notifications = <<>>

\* the same with the last but one clause for equal prices only
C39_AtMostOnePerCheck ==
  DetectReturned =>
    /\ Len(notifications) <= 2
    /\ Cardinality(TypesCreated \cap SaleTypes) <= 1
    /\ Cardinality(TypesCreated \cap PriceTypes) <= 1
    /\ Len(notifications) = Cardinality(TypesCreated)
    /\ ~Truthy(OldPriceOf) => TypesCreated \cap PriceTypes = {}
    /\ OldPriceOf = Some(NewPriceOf) => TypesCreated \cap PriceTypes = {}
    /\ NewPriceOf = 0 => notifications = <<>>

\* a product stored at 0.20 and found at 0.19: a price_drop is created
C39_OneCentDropCase ==
  /\ DetectReturned
  /\ OldPriceOf = Some(20) /\ NewPriceOf = 19
  /\ "price_drop" \in TypesCreated

\* a product stored at 0.11 and found at 0.10, a drop of 9 percent: nothing
\* about the price
C39_OneCentSilentCase ==
  /\ DetectReturned
  /\ OldPriceOf = Some(11) /\ NewPriceOf = 10
  /\ TypesCreated \cap PriceTypes = {}

\* two notifications from one call: sale_ended and price_increase
C39_TwoNotificationsCase ==
  /\ DetectReturned
  /\ Len(notifications) = 2
  /\ notifications[1].type = "sale_ended" /\ notifications[2].type = "price_increase"

\* a product whose stored price is unknown goes on sale: a new_sale and
\* nothing about the price
C39_UnknownStoredPriceCase ==
  /\ DetectReturned
  /\ IsNull(OldPriceOf)
  /\ TypesCreated = {"new_sale"}

====
